---- MODULE Spec2Model ----
(***************************************************************************)
(* Model of ncode/tagit: the tag reconciliation engine of pkg/tagit        *)
(* (TagIt.Run, updateServiceTags, CleanupTags, needsTag, diffTags,         *)
(* parseScriptOutput, copyServiceToRegistration, getService).              *)
(* CmdExecutor.Execute with its child process and deadline, and the flag   *)
(* validation of cmd run, each under a specification of its own.          *)
(*                                                                         *)
(* Strings are sequences of byte values, so that strings.HasPrefix,        *)
(* strings.Fields, fmt.Sprintf("%s-%s") and slices.Sort are computed on    *)
(* the characters as the Go code computes them.                            *)
(***************************************************************************)
EXTENDS Integers, Sequences, FiniteSets, TLC

VARIABLES
    registry,     \* the Consul agent's entry for ServiceID (NoService when absent)
    pc,           \* position of the driver goroutine
    service,      \* *api.AgentService fetched by getService in the current pass
    out,          \* the []byte runScript returned to this step
    cancelled,    \* ctx.Done() is closed
    tickPending,  \* a tick is buffered in ticker.C
    err,          \* what the last updateServiceTags / CleanupTags returned
    submitted,    \* the registration handed to ServiceRegister by this step
    lastOkOut,    \* history: probe output of the last pass that returned nil
    fault,        \* the collaborator call that failed in this step ("none": none did)
    fnCurrent,    \* needsTag argument `current` (function specification)
    fnUpdate,     \* needsTag argument `update`  (function specification)
    fnResult,     \* needsTag result             (function specification)
    parse,        \* parseScriptOutput applied on its own: its argument and result
    exe,          \* one call of CmdExecutor.Execute: its argument, locals and result
    cmd,          \* one invocation of the run command: its flags and result
    loop,         \* Run's loop on its own: the ticker's channel and counts of ticks and passes
    other,        \* the tags another client of the agent registered last, if it did
    stable,       \* the probe output and the tags from the point where every call succeeds
    fac,          \* pkg/consul: the installed factory and the result of CreateClient
    unit          \* pkg/systemd: the fields given and the result of rendering

vars == <<registry, pc, service, out, cancelled, tickPending, err, submitted,
          lastOkOut, fault, fnCurrent, fnUpdate, fnResult, parse, exe, cmd, loop, other, stable, fac, unit>>

drv == <<registry, pc, service, out, cancelled, tickPending, err, submitted,
         lastOkOut, fault>>

\* the variables of the specifications of single functions and commands
fnv == <<fnCurrent, fnUpdate, fnResult, parse, exe, cmd, loop, other, stable, fac, unit>>

----------------------------------------------------------------------------
(* Bounds *)

MaxTags == 1      \* longest tag list of the initial registration

MaxOut == 3       \* longest probe output, in bytes

MaxFn == 2        \* longest argument list given to needsTag on its own

MaxParse == 5     \* longest output given to parseScriptOutput on its own, in bytes

MaxCmd == 2       \* longest command given to Execute, in bytes

MaxElapsed == 31  \* seconds followed after Execute made its context

MaxInterval == 3  \* longest interval flag, in bytes

MaxTicks == 5     \* ticks the ticker fires while Run's loop is followed on its own

----------------------------------------------------------------------------
(* Bytes and strings *)

\* unicode.IsSpace on the bytes of a probe output (ASCII)
Space == {9, 10, 11, 12, 13, 32}

\* t.TagPrefix: the string "t"
TagPrefix == <<116>>

\* t.ServiceID
ServiceID == "svc1"

\* the bytes a probe can print: ' ' and 'a'
ProbeBytes == {32, 97}

\* the tags a registration can start with:
\*   "ta"   foreign, starts with the prefix but has no dash
\*   "a-t"  foreign, contains the prefix and a dash elsewhere
\*   "t-a"  managed, a tag the probe can produce
\*   "t-"   managed by prefix match, a tag no probe output produces
TagUniverse == { <<116, 97>>, <<97, 45, 116>>, <<116, 45, 97>>, <<116, 45>> }

\* the tags needsTag is given when it is applied on its own: TagUniverse and
\*   "a"    foreign
\*   "t-aa" managed
FnTags == TagUniverse \cup { <<97>>, <<116, 45, 97, 97>> }

\* the sequences over S of length at most n
SeqsUpTo(S, n) == UNION { [1..k -> S] : k \in 0..n }

\* the set of elements of a sequence
Range(s) == { s[i] : i \in 1..Len(s) }

\* strings.HasPrefix(s, prefix)
HasPrefix(s, prefix) ==
    /\ Len(s) >= Len(prefix)
    /\ SubSeq(s, 1, Len(prefix)) = prefix

\* Go's < on strings: lexicographic on bytes
RECURSIVE StrLess(_, _)
StrLess(a, b) ==
    IF Len(b) = 0 THEN FALSE
    ELSE IF Len(a) = 0 THEN TRUE
    ELSE IF Head(a) < Head(b) THEN TRUE
    ELSE IF Head(a) > Head(b) THEN FALSE
    ELSE StrLess(Tail(a), Tail(b))

\* insert x into the sorted list s
RECURSIVE Insert(_, _)
Insert(x, s) ==
    IF Len(s) = 0 THEN <<x>>
    ELSE IF StrLess(Head(s), x) THEN <<Head(s)>> \o Insert(x, Tail(s))
    ELSE <<x>> \o s

\* slices.Sort(s)
RECURSIVE Sort(_)
Sort(s) == IF Len(s) = 0 THEN <<>> ELSE Insert(Head(s), Sort(Tail(s)))

\* slices.Compact(s): drops every element equal to its predecessor
RECURSIVE Compact(_)
Compact(s) ==
    IF Len(s) <= 1 THEN s
    ELSE IF s[1] = s[2] THEN Compact(Tail(s))
    ELSE <<Head(s)>> \o Compact(Tail(s))

\* strings.Fields(s): the maximal runs of non-space bytes, in order
RECURSIVE FieldsFrom(_, _)
FieldsFrom(s, cur) ==
    IF Len(s) = 0 THEN (IF Len(cur) = 0 THEN <<>> ELSE <<cur>>)
    ELSE IF Head(s) \in Space
         THEN (IF Len(cur) = 0 THEN <<>> ELSE <<cur>>) \o FieldsFrom(Tail(s), <<>>)
         ELSE FieldsFrom(Tail(s), Append(cur, Head(s)))

Fields(s) == FieldsFrom(s, <<>>)

----------------------------------------------------------------------------
(* pkg/tagit: the pure functions *)

\* a prefix test without the dash: strings.HasPrefix(tag, t.TagPrefix)
IsPrefixed_NoDash(tag) == HasPrefix(tag, TagPrefix)

\* the managed-tag test of needsTag and CleanupTags
IsPrefixed(tag) == HasPrefix(tag, TagPrefix \o <<45>>)

\* the tags of s that are prefixed (keepPrefixed) or are not, in order
RECURSIVE FilterTags(_, _)
FilterTags(s, keepPrefixed) ==
    IF Len(s) = 0 THEN <<>>
    ELSE IF IsPrefixed(Head(s)) = keepPrefixed
         THEN <<Head(s)>> \o FilterTags(Tail(s), keepPrefixed)
         ELSE FilterTags(Tail(s), keepPrefixed)

\* parseScriptOutput
RECURSIVE PrefixEach(_)
PrefixEach(fields) ==
    IF Len(fields) = 0 THEN <<>>
    ELSE <<TagPrefix \o <<45>> \o Head(fields)>> \o PrefixEach(Tail(fields))

\* parseScriptOutput without the split: the whole output as one value
parseScriptOutput_Unsplit(output) ==
    IF Len(output) = 0 THEN <<>> ELSE << TagPrefix \o <<45>> \o output >>

\* parseScriptOutput: strings.Fields, then prefix-dash-value for each field
parseScriptOutput(output) == PrefixEach(Fields(output))

\* diffTags with its second loop missing: only the tags update adds
diffTags_OneWay(current, update) ==
    LET currentSet == Range(current)
        updateSet  == Range(update)
    IN  { tag \in updateSet : tag \notin currentSet }

\* diffTags: the tags in exactly one of the two lists (only its length is used)
diffTags(current, update) ==
    LET currentSet == Range(current)
        updateSet  == Range(update)
    IN  { tag \in updateSet : tag \notin currentSet }
        \cup { tag \in currentSet : tag \notin updateSet }

\* needsTag returning the update alone, without the non-prefixed tags
needsTag_DropForeign(current, update) ==
    LET currentPrefixed == FilterTags(current, TRUE)
        diff            == diffTags(currentPrefixed, update)
    IN  IF Cardinality(diff) = 0
        THEN [updatedTags |-> <<>>, shouldTag |-> FALSE]
        ELSE [updatedTags |-> Compact(Sort(update)), shouldTag |-> TRUE]

\* needsTag appending the update to all the current tags
needsTag_KeepStale(current, update) ==
    LET currentPrefixed == FilterTags(current, TRUE)
        diff            == diffTags(currentPrefixed, update)
    IN  IF Cardinality(diff) = 0
        THEN [updatedTags |-> <<>>, shouldTag |-> FALSE]
        ELSE [updatedTags |-> Compact(Sort(current \o update)), shouldTag |-> TRUE]

\* needsTag comparing all the current tags with the update
needsTag_WholeCompare(current, update) ==
    LET currentNonPrefixed == FilterTags(current, FALSE)
        diff               == diffTags(current, update)
    IN  IF Cardinality(diff) = 0
        THEN [updatedTags |-> <<>>, shouldTag |-> FALSE]
        ELSE [updatedTags |-> Compact(Sort(currentNonPrefixed \o update)),
              shouldTag   |-> TRUE]

\* needsTag comparing the prefixed tags with the update as lists
needsTag_OrderedCompare(current, update) ==
    LET currentPrefixed    == FilterTags(current, TRUE)
        currentNonPrefixed == FilterTags(current, FALSE)
    IN  IF currentPrefixed = update
        THEN [updatedTags |-> <<>>, shouldTag |-> FALSE]
        ELSE [updatedTags |-> Compact(Sort(currentNonPrefixed \o update)),
              shouldTag   |-> TRUE]

\* needsTag treating an empty update as nothing to do
needsTag_SkipEmpty(current, update) ==
    LET currentPrefixed    == FilterTags(current, TRUE)
        currentNonPrefixed == FilterTags(current, FALSE)
        diff               == diffTags(currentPrefixed, update)
    IN  IF Cardinality(diff) = 0 \/ Len(update) = 0
        THEN [updatedTags |-> <<>>, shouldTag |-> FALSE]
        ELSE [updatedTags |-> Compact(Sort(currentNonPrefixed \o update)),
              shouldTag   |-> TRUE]

\* needsTag without slices.Compact: the sorted list with its repetitions
needsTag_NoCompact(current, update) ==
    LET currentPrefixed    == FilterTags(current, TRUE)
        currentNonPrefixed == FilterTags(current, FALSE)
        diff               == diffTags(currentPrefixed, update)
    IN  IF Cardinality(diff) = 0
        THEN [updatedTags |-> <<>>, shouldTag |-> FALSE]
        ELSE [updatedTags |-> Sort(currentNonPrefixed \o update),
              shouldTag   |-> TRUE]

\* needsTag without slices.Sort: the list as appended, adjacent repeats dropped
needsTag_NoSort(current, update) ==
    LET currentPrefixed    == FilterTags(current, TRUE)
        currentNonPrefixed == FilterTags(current, FALSE)
        diff               == diffTags(currentPrefixed, update)
    IN  IF Cardinality(diff) = 0
        THEN [updatedTags |-> <<>>, shouldTag |-> FALSE]
        ELSE [updatedTags |-> Compact(currentNonPrefixed \o update),
              shouldTag   |-> TRUE]

\* needsTag
needsTag(current, update) ==
    LET currentPrefixed    == FilterTags(current, TRUE)
        currentNonPrefixed == FilterTags(current, FALSE)
        diff               == diffTags(currentPrefixed, update)
    IN  IF Cardinality(diff) = 0
        THEN [updatedTags |-> <<>>, shouldTag |-> FALSE]
        ELSE [updatedTags |-> Compact(Sort(currentNonPrefixed \o update)),
              shouldTag   |-> TRUE]

\* copyServiceToRegistration without Meta and with the weights left out
copyServiceToRegistration_Partial(svc) ==
    [ID      |-> svc.ID,
     Name    |-> svc.Service,
     Tags    |-> svc.Tags,
     Port    |-> svc.Port,
     Address |-> svc.Address,
     Kind    |-> svc.Kind,
     Meta    |-> {},
     Weights |-> [Passing |-> 0, Warning |-> 0]]

\* copyServiceToRegistration
copyServiceToRegistration(svc) ==
    [ID      |-> svc.ID,
     Name    |-> svc.Service,
     Tags    |-> svc.Tags,
     Port    |-> svc.Port,
     Address |-> svc.Address,
     Kind    |-> svc.Kind,
     Meta    |-> svc.Meta,
     Weights |-> [Passing |-> svc.Weights.Passing,
                  Warning |-> svc.Weights.Warning]]

----------------------------------------------------------------------------
(* The registry (Consul agent) and the values of the driver's locals *)

\* a nil *api.AgentService / an absent registry entry
NoService ==
    [ID |-> "", Service |-> "", Tags |-> <<>>, Port |-> 0, Address |-> "",
     Kind |-> "", Meta |-> {}, Weights |-> [Passing |-> 0, Warning |-> 0]]

\* no *api.AgentServiceRegistration was handed to ServiceRegister
NoRegistration ==
    [ID |-> "", Name |-> "", Tags |-> <<>>, Port |-> 0, Address |-> "",
     Kind |-> "", Meta |-> {}, Weights |-> [Passing |-> 0, Warning |-> 0]]

\* the non-tag fields of the registered service: every one differs from Go's
\* zero value and from the others, so that a field dropped or swapped shows
Profiles ==
    { [ID |-> ServiceID, Service |-> "web", Tags |-> <<>>, Port |-> 8080,
       Address |-> "10.0.0.1", Kind |-> "connect-proxy",
       Meta |-> {<<"env", "prod">>},
       Weights |-> [Passing |-> 10, Warning |-> 2]] }

\* the outputs a probe can print
ProbeOutputs == SeqsUpTo(ProbeBytes, MaxOut)

\* agent.ServiceRegister(reg) as the agent stores it and agent.Service returns it
Registered(reg) ==
    [ID      |-> reg.ID,
     Service |-> reg.Name,
     Tags    |-> reg.Tags,
     Port    |-> reg.Port,
     Address |-> reg.Address,
     Kind    |-> reg.Kind,
     Meta    |-> reg.Meta,
     Weights |-> reg.Weights]

\* getService that hands a nil service on without an error
getService_NilUnchecked(transportFails) ==
    IF transportFails
    THEN [service |-> NoService, err |-> "error getting service"]
    ELSE [service |-> registry, err |-> "nil"]

\* getService: transportFails is the outcome of agent.Service; the error is
\* "error getting service <id>: ..." or "service <id> not found"
getService(transportFails) ==
    IF transportFails
    THEN [service |-> NoService, err |-> "error getting service"]
    ELSE IF registry = NoService
    THEN [service |-> NoService, err |-> "service not found"]
    ELSE [service |-> registry, err |-> "nil"]

\* updateConsulService giving up, with an error, once the context is cancelled
updateConsulService_CtxAware(svc, newTags, registerFails) ==
    LET registration == copyServiceToRegistration(svc)
        r            == needsTag(registration.Tags, newTags)
    IN  IF r.shouldTag /\ ~cancelled
        THEN [called       |-> TRUE,
              registration |-> [registration EXCEPT !.Tags = r.updatedTags],
              err          |-> IF registerFails THEN "register" ELSE "nil"]
        ELSE [called       |-> FALSE,
              registration |-> NoRegistration,
              err          |-> IF r.shouldTag THEN "register" ELSE "nil"]

\* updateConsulService that logs a failed ServiceRegister and returns nil
updateConsulService_ErrorSwallowed(svc, newTags, registerFails) ==
    LET registration == copyServiceToRegistration(svc)
        r            == needsTag(registration.Tags, newTags)
    IN  IF r.shouldTag
        THEN [called       |-> TRUE,
              registration |-> [registration EXCEPT !.Tags = r.updatedTags],
              err          |-> "nil"]
        ELSE [called       |-> FALSE,
              registration |-> NoRegistration,
              err          |-> "nil"]

\* updateConsulService: registerFails is the outcome of agent.ServiceRegister
updateConsulService(svc, newTags, registerFails) ==
    LET registration == copyServiceToRegistration(svc)
        r            == needsTag(registration.Tags, newTags)
    IN  IF r.shouldTag
        THEN [called       |-> TRUE,
              registration |-> [registration EXCEPT !.Tags = r.updatedTags],
              err          |-> IF registerFails THEN "register" ELSE "nil"]
        ELSE [called       |-> FALSE,
              registration |-> NoRegistration,
              err          |-> "nil"]

----------------------------------------------------------------------------
(* The driver: cmd run (TagIt.Run) and cmd cleanup (TagIt.CleanupTags) *)

\* parseScriptOutput is not being applied on its own
NoParse == [output |-> <<>>, tags |-> <<>>, done |-> FALSE]

\* no call of CmdExecutor.Execute is being followed
NoExec == [pc |-> "idle"]

\* no invocation of the run command is being followed
NoCmd == [pc |-> "idle"]

\* Run's loop is not being followed on its own
NoLoop == [pc |-> "idle"]

\* pkg/consul's factory is not being followed
NoFac == [pc |-> "idle"]

\* pkg/systemd's rendering is not being followed
NoUnit == [pc |-> "idle"]

TypeOK ==
    /\ pc \in {"idle", "select", "fetch", "probe", "cleanup", "returned"}
    /\ cancelled \in BOOLEAN
    /\ tickPending \in BOOLEAN
    /\ err \in {"none", "nil", "error getting service", "service not found",
               "runScript", "register"}
    /\ out \in ProbeOutputs
    /\ Len(lastOkOut) <= 1
    /\ fault \in {"none", "Service", "Execute", "ServiceRegister"}

Init ==
    /\ registry \in {NoService} \cup
           { [p EXCEPT !.Tags = tg] : p \in Profiles, tg \in SeqsUpTo(TagUniverse, MaxTags) }
    /\ pc = "idle"
    /\ service = NoService
    /\ out = <<>>
    /\ cancelled = FALSE
    /\ tickPending = FALSE
    /\ err = "none"
    /\ submitted = NoRegistration
    /\ lastOkOut = <<>>
    /\ fault = "none"
    /\ fnCurrent = <<>>
    /\ fnUpdate = <<>>
    /\ fnResult = <<>>
    /\ parse = NoParse
    /\ exe = NoExec
    /\ cmd = NoCmd
    /\ loop = NoLoop
    /\ other = <<>>
    /\ stable = <<>>
    /\ fac = NoFac
    /\ unit = NoUnit

\* cmd run: context.WithCancel, then Run creates the ticker and enters the loop
StartRun ==
    /\ pc \in {"idle", "returned"}
    /\ pc' = "select"
    /\ cancelled' = FALSE
    /\ tickPending' = FALSE
    /\ err' = "none"
    /\ submitted' = NoRegistration
    /\ out' = <<>>
    /\ fault' = "none"
    /\ UNCHANGED <<registry, service, lastOkOut, fnv>>

\* the ticker fires: ticker.C holds one tick, a tick that finds it full is dropped
Tick ==
    /\ pc \in {"select", "fetch", "probe"}
    /\ ~tickPending
    /\ tickPending' = TRUE
    /\ submitted' = NoRegistration
    /\ out' = <<>>
    /\ fault' = "none"
    /\ UNCHANGED <<registry, pc, service, cancelled, err, lastOkOut, fnv>>

\* SIGINT/SIGTERM: the signal goroutine calls cancel()
Cancel ==
    /\ pc \in {"select", "fetch", "probe"}
    /\ ~cancelled
    /\ cancelled' = TRUE
    /\ submitted' = NoRegistration
    /\ out' = <<>>
    /\ fault' = "none"
    /\ UNCHANGED <<registry, pc, service, tickPending, err, lastOkOut, fnv>>

\* a select that looks at ctx.Done() only when no tick is waiting
SelectDone_TickFirst ==
    /\ pc = "select"
    /\ cancelled
    /\ ~tickPending
    /\ pc' = "returned"
    /\ tickPending' = FALSE
    /\ submitted' = NoRegistration
    /\ out' = <<>>
    /\ fault' = "none"
    /\ UNCHANGED <<registry, service, cancelled, err, lastOkOut, fnv>>

\* Run: select takes case <-ctx.Done() and returns (deferred ticker.Stop)
SelectDone ==
    /\ pc = "select"
    /\ cancelled
    /\ pc' = "returned"
    /\ tickPending' = FALSE
    /\ submitted' = NoRegistration
    /\ out' = <<>>
    /\ fault' = "none"
    /\ UNCHANGED <<registry, service, cancelled, err, lastOkOut, fnv>>

\* a tick handled as soon as it fires, also while a pass is between its fetch
\* and its register call
SelectTick_DuringPass ==
    /\ pc \in {"select", "probe"}
    /\ tickPending
    /\ tickPending' = FALSE
    /\ pc' = "fetch"
    /\ err' = "none"
    /\ out' = <<>>
    /\ submitted' = NoRegistration
    /\ fault' = "none"
    /\ UNCHANGED <<registry, service, cancelled, lastOkOut, fnv>>

\* a pass that starts with the probe, nothing fetched yet
SelectTick_ProbeFirst ==
    /\ pc = "select"
    /\ tickPending
    /\ tickPending' = FALSE
    /\ pc' = "probe"
    /\ err' = "none"
    /\ out' = <<>>
    /\ submitted' = NoRegistration
    /\ fault' = "none"
    /\ UNCHANGED <<registry, service, cancelled, lastOkOut, fnv>>

\* Run: select takes case <-ticker.C and calls updateServiceTags
SelectTick ==
    /\ pc = "select"
    /\ tickPending
    /\ tickPending' = FALSE
    /\ pc' = "fetch"
    /\ err' = "none"
    /\ out' = <<>>
    /\ submitted' = NoRegistration
    /\ fault' = "none"
    /\ UNCHANGED <<registry, service, cancelled, lastOkOut, fnv>>

\* updateServiceTags that calls getService again when it failed
PassGetService_Retry ==
    /\ pc = "fetch"
    /\ \E transportFails \in BOOLEAN :
         LET g == getService(transportFails)
         IN  /\ fault' = IF transportFails THEN "Service" ELSE "none"
             /\ IF g.err # "nil"
                THEN /\ err' = g.err
                     /\ pc' = "fetch"
                     /\ service' = NoService
                ELSE /\ service' = g.service
                     /\ pc' = "probe"
                     /\ err' = err
    /\ submitted' = NoRegistration
    /\ out' = <<>>
    /\ UNCHANGED <<registry, cancelled, tickPending, lastOkOut, fnv>>

\* a Run that returns when getService fails
PassGetService_ReturnOnError ==
    /\ pc = "fetch"
    /\ \E transportFails \in BOOLEAN :
         LET g == getService(transportFails)
         IN  /\ fault' = IF transportFails THEN "Service" ELSE "none"
             /\ IF g.err # "nil"
                THEN /\ err' = g.err
                     /\ pc' = "returned"
                     /\ service' = NoService
                ELSE /\ service' = g.service
                     /\ pc' = "probe"
                     /\ err' = err
    /\ submitted' = NoRegistration
    /\ out' = <<>>
    /\ UNCHANGED <<registry, cancelled, tickPending, lastOkOut, fnv>>

\* updateServiceTags: service, err := t.getService()
PassGetService ==
    /\ pc = "fetch"
    /\ \E transportFails \in BOOLEAN :
         LET g == getService(transportFails)
         IN  /\ fault' = IF transportFails THEN "Service" ELSE "none"
             /\ IF g.err # "nil"
                THEN /\ err' = g.err
                     /\ pc' = "select"
                     /\ service' = NoService
                ELSE /\ service' = g.service
                     /\ pc' = "probe"
                     /\ err' = err
    /\ submitted' = NoRegistration
    /\ out' = <<>>
    /\ UNCHANGED <<registry, cancelled, tickPending, lastOkOut, fnv>>

\* updateServiceTags that remembers the output it applied last and makes no
\* register call when the probe prints the same again
PassGenerateAndUpdate_Cached ==
    /\ pc = "probe"
    /\ \/ /\ err' = "runScript"
          /\ fault' = "Execute"
          /\ out' = <<>>
          /\ submitted' = NoRegistration
          /\ UNCHANGED <<registry, lastOkOut>>
       \/ \E o \in ProbeOutputs, registerFails \in BOOLEAN :
            LET u == IF lastOkOut = <<o>>
                     THEN [called |-> FALSE, registration |-> NoRegistration,
                           err |-> "nil"]
                     ELSE updateConsulService(service, parseScriptOutput(o), registerFails)
            IN  /\ u.called \/ ~registerFails
                /\ out' = o
                /\ submitted' = u.registration
                /\ err' = u.err
                /\ fault' = IF u.called /\ registerFails THEN "ServiceRegister" ELSE "none"
                /\ registry' = IF u.called /\ u.err = "nil"
                               THEN Registered(u.registration) ELSE registry
                /\ lastOkOut' = IF u.err = "nil" THEN <<o>> ELSE lastOkOut
    /\ pc' = "select"
    /\ service' = NoService
    /\ UNCHANGED <<cancelled, tickPending, fnv>>

\* updateServiceTags that reads the entry again right before it writes
PassGenerateAndUpdate_Reread ==
    /\ pc = "probe"
    /\ \/ /\ err' = "runScript"
          /\ fault' = "Execute"
          /\ out' = <<>>
          /\ submitted' = NoRegistration
          /\ UNCHANGED <<registry, lastOkOut>>
       \/ \E o \in ProbeOutputs, registerFails \in BOOLEAN :
            LET u == updateConsulService(registry, parseScriptOutput(o), registerFails)
            IN  /\ u.called \/ ~registerFails
                /\ out' = o
                /\ submitted' = u.registration
                /\ err' = u.err
                /\ fault' = IF u.called /\ registerFails THEN "ServiceRegister" ELSE "none"
                /\ registry' = IF u.called /\ u.err = "nil"
                               THEN Registered(u.registration) ELSE registry
                /\ lastOkOut' = IF u.err = "nil" THEN <<o>> ELSE lastOkOut
    /\ pc' = "select"
    /\ service' = NoService
    /\ UNCHANGED <<cancelled, tickPending, fnv>>

\* updateServiceTags that goes on with no candidate tags when the probe fails
PassGenerateAndUpdate_FailAsEmpty ==
    /\ pc = "probe"
    /\ \E o \in ProbeOutputs, probeFails \in BOOLEAN, registerFails \in BOOLEAN :
         LET u == updateConsulService(service,
                      IF probeFails THEN <<>> ELSE parseScriptOutput(o), registerFails)
         IN  /\ u.called \/ ~registerFails
             /\ out' = IF probeFails THEN <<>> ELSE o
             /\ submitted' = u.registration
             /\ err' = IF probeFails THEN "runScript" ELSE u.err
             /\ fault' = IF probeFails THEN "Execute"
                         ELSE IF u.called /\ registerFails THEN "ServiceRegister"
                         ELSE "none"
             /\ registry' = IF u.called /\ u.err = "nil"
                            THEN Registered(u.registration) ELSE registry
             /\ lastOkOut' = IF ~probeFails /\ u.err = "nil" THEN <<o>> ELSE lastOkOut
    /\ pc' = "select"
    /\ service' = NoService
    /\ UNCHANGED <<cancelled, tickPending, fnv>>

\* updateServiceTags: newTags, err := t.generateNewTags(), then
\* t.updateConsulService(service, newTags), then back to the select
PassGenerateAndUpdate ==
    /\ pc = "probe"
    /\ \/ /\ err' = "runScript"
          /\ fault' = "Execute"
          /\ out' = <<>>
          /\ submitted' = NoRegistration
          /\ UNCHANGED <<registry, lastOkOut>>
       \/ \E o \in ProbeOutputs, registerFails \in BOOLEAN :
            LET u == updateConsulService(service, parseScriptOutput(o), registerFails)
            IN  /\ u.called \/ ~registerFails
                /\ out' = o
                /\ submitted' = u.registration
                /\ err' = u.err
                /\ fault' = IF u.called /\ registerFails THEN "ServiceRegister" ELSE "none"
                /\ registry' = IF u.called /\ u.err = "nil"
                               THEN Registered(u.registration) ELSE registry
                /\ lastOkOut' = IF u.err = "nil" THEN <<o>> ELSE lastOkOut
    /\ pc' = "select"
    /\ service' = NoService
    /\ UNCHANGED <<cancelled, tickPending, fnv>>

\* cmd cleanup, CleanupTags: service, err := t.getService()
CleanupGetService ==
    /\ pc \in {"idle", "returned"}
    /\ \E transportFails \in BOOLEAN :
         LET g == getService(transportFails)
         IN  /\ fault' = IF transportFails THEN "Service" ELSE "none"
             /\ IF g.err # "nil"
                THEN /\ err' = g.err
                     /\ pc' = "idle"
                     /\ service' = NoService
                ELSE /\ service' = g.service
                     /\ pc' = "cleanup"
                     /\ err' = "none"
    /\ submitted' = NoRegistration
    /\ cancelled' = FALSE
    /\ out' = <<>>
    /\ UNCHANGED <<registry, tickPending, lastOkOut, fnv>>

\* CleanupTags with the filter inverted: it keeps the prefixed tags
CleanupUpdate_KeepPrefixed ==
    /\ pc = "cleanup"
    /\ \E registerFails \in BOOLEAN :
         LET cleanedTags == FilterTags(service.Tags, TRUE)
             u == updateConsulService(service, cleanedTags, registerFails)
         IN  /\ u.called \/ ~registerFails
             /\ submitted' = u.registration
             /\ err' = u.err
             /\ fault' = IF u.called /\ registerFails THEN "ServiceRegister" ELSE "none"
             /\ registry' = IF u.called /\ u.err = "nil"
                            THEN Registered(u.registration) ELSE registry
             /\ lastOkOut' = IF u.called /\ u.err = "nil" THEN <<>> ELSE lastOkOut
    /\ pc' = "idle"
    /\ service' = NoService
    /\ out' = <<>>
    /\ UNCHANGED <<cancelled, tickPending, fnv>>

\* CleanupTags that logs a failed update and returns nil
CleanupUpdate_ErrorDropped ==
    /\ pc = "cleanup"
    /\ \E registerFails \in BOOLEAN :
         LET cleanedTags == FilterTags(service.Tags, FALSE)
             u == updateConsulService(service, cleanedTags, registerFails)
         IN  /\ u.called \/ ~registerFails
             /\ submitted' = u.registration
             /\ err' = "nil"
             /\ fault' = IF u.called /\ registerFails THEN "ServiceRegister" ELSE "none"
             /\ registry' = IF u.called /\ u.err = "nil"
                            THEN Registered(u.registration) ELSE registry
             /\ lastOkOut' = IF u.called /\ u.err = "nil" THEN <<>> ELSE lastOkOut
    /\ pc' = "idle"
    /\ service' = NoService
    /\ out' = <<>>
    /\ UNCHANGED <<cancelled, tickPending, fnv>>

\* CleanupTags: filter the prefixed tags out and updateConsulService(service, cleanedTags)
CleanupUpdate ==
    /\ pc = "cleanup"
    /\ \E registerFails \in BOOLEAN :
         LET cleanedTags == FilterTags(service.Tags, FALSE)
             u == updateConsulService(service, cleanedTags, registerFails)
         IN  /\ u.called \/ ~registerFails
             /\ submitted' = u.registration
             /\ err' = u.err
             /\ fault' = IF u.called /\ registerFails THEN "ServiceRegister" ELSE "none"
             /\ registry' = IF u.called /\ u.err = "nil"
                            THEN Registered(u.registration) ELSE registry
             /\ lastOkOut' = IF u.called /\ u.err = "nil" THEN <<>> ELSE lastOkOut
    /\ pc' = "idle"
    /\ service' = NoService
    /\ out' = <<>>
    /\ UNCHANGED <<cancelled, tickPending, fnv>>

Next ==
    \/ StartRun
    \/ Tick
    \/ Cancel
    \/ SelectDone
    \/ SelectTick
    \/ PassGetService
    \/ PassGenerateAndUpdate
    \/ CleanupGetService
    \/ CleanupUpdate

Spec == Init /\ [][Next]_vars

\* Fairness: a pass in flight terminates (its registry and probe calls return);
\* a select with several ready cases picks one uniformly at random, so a
\* ready ctx.Done() case is not passed over forever.
LiveSpec ==
    /\ Init /\ [][Next]_vars
    /\ WF_vars(PassGetService)
    /\ WF_vars(PassGenerateAndUpdate)
    /\ SF_vars(SelectDone)

----------------------------------------------------------------------------
(* needsTag applied on its own to arbitrary arguments *)

FnInit ==
    /\ registry = NoService
    /\ pc = "idle"
    /\ service = NoService
    /\ out = <<>>
    /\ cancelled = FALSE
    /\ tickPending = FALSE
    /\ err = "none"
    /\ submitted = NoRegistration
    /\ lastOkOut = <<>>
    /\ fault = "none"
    /\ fnCurrent \in SeqsUpTo(FnTags, MaxFn)
    /\ fnUpdate \in SeqsUpTo(FnTags, MaxFn)
    /\ fnResult = <<>>
    /\ parse = NoParse
    /\ exe = NoExec
    /\ cmd = NoCmd
    /\ loop = NoLoop
    /\ other = <<>>
    /\ stable = <<>>
    /\ fac = NoFac
    /\ unit = NoUnit

\* updatedTags, shouldTag := t.needsTag(current, update)
FnNeedsTag ==
    /\ fnResult = <<>>
    /\ fnResult' = <<needsTag(fnCurrent, fnUpdate)>>
    /\ UNCHANGED <<drv, fnCurrent, fnUpdate, parse, exe, cmd, loop, other, stable, fac, unit>>

FnNext == FnNeedsTag

FnSpec == FnInit /\ [][FnNext]_vars

----------------------------------------------------------------------------
(* parseScriptOutput applied on its own to arbitrary outputs *)

\* the bytes of the outputs: newline, ' ', 'a', 'b', 'c'
ParseBytes == {10, 32, 97, 98, 99}

ParseInit ==
    /\ registry = NoService
    /\ pc = "idle"
    /\ service = NoService
    /\ out = <<>>
    /\ cancelled = FALSE
    /\ tickPending = FALSE
    /\ err = "none"
    /\ submitted = NoRegistration
    /\ lastOkOut = <<>>
    /\ fault = "none"
    /\ fnCurrent = <<>>
    /\ fnUpdate = <<>>
    /\ fnResult = <<>>
    /\ \E o \in SeqsUpTo(ParseBytes, MaxParse) :
           parse = [output |-> o, tags |-> <<>>, done |-> FALSE]
    /\ exe = NoExec
    /\ cmd = NoCmd
    /\ loop = NoLoop
    /\ other = <<>>
    /\ stable = <<>>
    /\ fac = NoFac
    /\ unit = NoUnit

\* tags := t.parseScriptOutput(out)
FnParse ==
    /\ ~parse.done
    /\ parse' = [parse EXCEPT !.tags = parseScriptOutput(parse.output),
                              !.done = TRUE]
    /\ UNCHANGED <<drv, fnCurrent, fnUpdate, fnResult, exe, cmd, loop, other, stable, fac, unit>>

ParseNext == FnParse

ParseSpec == ParseInit /\ [][ParseNext]_vars

----------------------------------------------------------------------------
(* CmdExecutor.Execute: one call, the child process and the clock *)

\* const DefaultScriptTimeout = 30 * time.Second, in seconds
DefaultScriptTimeout == 30

\* the bytes of a command: ' ', '"' and 'a'
CmdBytes == {32, 34, 97}

\* the values of CmdExecutor.Timeout, in seconds: unset, and two seconds
ExecTimeouts == {0, 2}

\* Execute has not returned / Output has not returned
NoReturn == [out |-> <<>>, err |-> "none"]

\* shlex's tokenizer on the bytes of CmdBytes: spaces separate words, a '"'
\* opens or closes a quoted part of a word, the end of the input inside a
\* quoted part is an error
RECURSIVE shlexScan(_, _, _, _)
shlexScan(s, cur, inWord, inQuote) ==
    IF Len(s) = 0
    THEN IF inQuote THEN [args |-> <<>>, err |-> TRUE]
         ELSE [args |-> IF inWord THEN <<cur>> ELSE <<>>, err |-> FALSE]
    ELSE IF inQuote
    THEN IF Head(s) = 34
         THEN shlexScan(Tail(s), cur, TRUE, FALSE)
         ELSE shlexScan(Tail(s), Append(cur, Head(s)), TRUE, TRUE)
    ELSE IF Head(s) = 32
    THEN LET rest == shlexScan(Tail(s), <<>>, FALSE, FALSE)
         IN  IF inWord THEN [args |-> <<cur>> \o rest.args, err |-> rest.err]
             ELSE rest
    ELSE IF Head(s) = 34
    THEN shlexScan(Tail(s), cur, TRUE, TRUE)
    ELSE shlexScan(Tail(s), Append(cur, Head(s)), TRUE, FALSE)

\* shlex.Split that closes a quote left open at the end of the input
shlexSplit_Lenient(command) ==
    LET r == shlexScan(command, <<>>, FALSE, FALSE)
    IN  IF r.err THEN shlexScan(Append(command, 34), <<>>, FALSE, FALSE) ELSE r

\* args, err := shlex.Split(command)
shlexSplit(command) == shlexScan(command, <<>>, FALSE, FALSE)

\* timeout := e.Timeout; if timeout == 0 { timeout = DefaultScriptTimeout }
ExecDeadline(timeout) == IF timeout = 0 THEN DefaultScriptTimeout ELSE timeout

\* ctx.Err() of the context.WithTimeout context, elapsed seconds after it
\* was made
ctxErr(elapsed, timeout) ==
    IF elapsed >= ExecDeadline(timeout) THEN "DeadlineExceeded" ELSE "nil"

\* generateNewTags on what runScript (Execute) returned
generateNewTags(ret) ==
    IF ret.err # "nil"
    THEN [tags |-> <<>>, err |-> ret.err]
    ELSE [tags |-> parseScriptOutput(ret.out), err |-> "nil"]

ExecInit ==
    /\ registry = NoService
    /\ pc = "idle"
    /\ service = NoService
    /\ out = <<>>
    /\ cancelled = FALSE
    /\ tickPending = FALSE
    /\ err = "none"
    /\ submitted = NoRegistration
    /\ lastOkOut = <<>>
    /\ fault = "none"
    /\ fnCurrent = <<>>
    /\ fnUpdate = <<>>
    /\ fnResult = <<>>
    /\ parse = NoParse
    /\ \E c \in SeqsUpTo(CmdBytes, MaxCmd), t \in ExecTimeouts :
           exe = [pc |-> "called", command |-> c, Timeout |-> t,
                  elapsed |-> 0, proc |-> "none", stdout |-> <<>>,
                  spawned |-> FALSE, lastRunning |-> -1,
                  res |-> NoReturn, ret |-> NoReturn]
    /\ cmd = NoCmd
    /\ loop = NoLoop
    /\ other = <<>>
    /\ stable = <<>>
    /\ fac = NoFac
    /\ unit = NoUnit

\* the variables Execute leaves alone
notExe == <<drv, fnCurrent, fnUpdate, fnResult, parse, cmd, loop, other, stable, fac, unit>>

\* Execute up to the start of the child process: the three checks of the
\* command, the context, and cmd.Start inside Output
ExecStart ==
    /\ exe.pc = "called"
    /\ LET sp == shlexSplit(exe.command)
       IN  IF exe.command = <<>>
           THEN exe' = [exe EXCEPT !.pc = "returned",
                            !.ret = [out |-> <<>>, err |-> "empty command"]]
           ELSE IF sp.err
           THEN exe' = [exe EXCEPT !.pc = "returned",
                            !.ret = [out |-> <<>>, err |-> "split"]]
           ELSE IF Len(sp.args) = 0
           THEN exe' = [exe EXCEPT !.pc = "returned",
                            !.ret = [out |-> <<>>, err |-> "no command"]]
           ELSE \E started \in (IF sp.args[1] = <<>> THEN {FALSE} ELSE BOOLEAN) :
                   IF started
                   THEN exe' = [exe EXCEPT !.pc = "wait", !.proc = "running",
                                    !.spawned = TRUE, !.lastRunning = 0]
                   ELSE exe' = [exe EXCEPT !.pc = "check",
                                    !.res = [out |-> <<>>, err |-> "start"]]
    /\ UNCHANGED notExe

\* the child process writes to its standard output
ExecWrite ==
    /\ exe.pc = "wait"
    /\ exe.proc = "running"
    /\ exe.stdout = <<>>
    /\ exe' = [exe EXCEPT !.stdout = <<97>>]
    /\ UNCHANGED notExe

\* the child process ends by itself, with status zero or not
ExecExit ==
    /\ exe.pc = "wait"
    /\ exe.proc = "running"
    /\ \E p \in {"exited", "failed"} : exe' = [exe EXCEPT !.proc = p]
    /\ UNCHANGED notExe

\* a second passes
ExecAdvance ==
    /\ exe.pc \in {"wait", "check"}
    /\ exe.elapsed < MaxElapsed
    /\ exe' = [exe EXCEPT !.elapsed = @ + 1,
                          !.lastRunning = IF exe.proc = "running"
                                          THEN exe.elapsed + 1 ELSE @]
    /\ UNCHANGED notExe

\* exec.CommandContext: the context is done, the child process is killed
ExecKill ==
    /\ exe.pc = "wait"
    /\ exe.proc = "running"
    /\ ctxErr(exe.elapsed, exe.Timeout) = "DeadlineExceeded"
    /\ exe' = [exe EXCEPT !.proc = "killed"]
    /\ UNCHANGED notExe

\* out, err := cmd.Output() returns once the child process has ended
ExecOutput ==
    /\ exe.pc = "wait"
    /\ exe.proc \in {"exited", "failed", "killed"}
    /\ exe' = [exe EXCEPT !.pc = "check",
                          !.res = [out |-> exe.stdout,
                                   err |-> IF exe.proc = "exited" THEN "nil"
                                           ELSE IF exe.proc = "failed" THEN "exit"
                                           ELSE "killed"]]
    /\ UNCHANGED notExe

\* Execute that looks at the context only when Output returned an error
ExecReturn_ErrFirst ==
    /\ exe.pc = "check"
    /\ exe' = [exe EXCEPT !.pc = "returned",
                          !.ret = IF exe.res.err # "nil"
                                     /\ ctxErr(exe.elapsed, exe.Timeout) = "DeadlineExceeded"
                                  THEN [out |-> <<>>, err |-> "timeout"]
                                  ELSE exe.res]
    /\ UNCHANGED notExe

\* if ctx.Err() == context.DeadlineExceeded { return nil, timeout error }
\* return out, err
ExecReturn ==
    /\ exe.pc = "check"
    /\ exe' = [exe EXCEPT !.pc = "returned",
                          !.ret = IF ctxErr(exe.elapsed, exe.Timeout) = "DeadlineExceeded"
                                  THEN [out |-> <<>>, err |-> "timeout"]
                                  ELSE exe.res]
    /\ UNCHANGED notExe

ExecNext ==
    \/ ExecStart
    \/ ExecWrite
    \/ ExecExit
    \/ ExecAdvance
    \/ ExecKill
    \/ ExecOutput
    \/ ExecReturn

ExecSpec == ExecInit /\ [][ExecNext]_vars

----------------------------------------------------------------------------
(* cmd run: the flags, their validation and the call of TagIt.Run *)

\* the bytes of an interval flag: '-', '0', '5', 's', 'x'
IntervalBytes == {45, 48, 53, 115, 120}

\* the bytes '0'..'9'
Digits == 48..57

\* the length of the longest prefix of s whose bytes are all in S
LeadLen(s, S) ==
    CHOOSE k \in 0..Len(s) :
        /\ \A i \in 1..k : s[i] \in S
        /\ (k = Len(s) \/ s[k + 1] \notin S)

\* the value of a string of decimal digits
RECURSIVE DecVal(_)
DecVal(s) ==
    IF Len(s) = 0 THEN 0
    ELSE DecVal(SubSeq(s, 1, Len(s) - 1)) * 10 + (s[Len(s)] - 48)

\* the loop of time.ParseDuration: a sequence of groups, each a decimal
\* number and a unit; "s" is the one unit the bytes of IntervalBytes spell;
\* the result is in seconds
RECURSIVE ParseGroups(_)
ParseGroups(s) ==
    IF Len(s) = 0 THEN [d |-> 0, err |-> FALSE]
    ELSE LET n == LeadLen(s, Digits)
             rest == SubSeq(s, n + 1, Len(s))
             u == LeadLen(rest, IntervalBytes \ Digits)
         IN  IF n = 0 THEN [d |-> 0, err |-> TRUE]
             ELSE IF u = 0 THEN [d |-> 0, err |-> TRUE]
             ELSE IF SubSeq(rest, 1, u) # <<115>> THEN [d |-> 0, err |-> TRUE]
             ELSE LET r == ParseGroups(SubSeq(rest, u + 1, Len(rest)))
                  IN  [d |-> DecVal(SubSeq(s, 1, n)) + r.d, err |-> r.err]

\* time.ParseDuration(s): an optional sign, then "0" or a sequence of groups
ParseDuration(s) ==
    LET signed == Len(s) > 0 /\ s[1] \in {43, 45}
        body == IF signed THEN Tail(s) ELSE s
        r == ParseGroups(body)
    IN  IF body = <<48>> THEN [d |-> 0, err |-> FALSE]
        ELSE IF body = <<>> THEN [d |-> 0, err |-> TRUE]
        ELSE IF r.err THEN [d |-> 0, err |-> TRUE]
        ELSE [d |-> IF signed /\ s[1] = 45 THEN 0 - r.d ELSE r.d, err |-> FALSE]

\* RunE that does not look at the script flag
RunE_ScriptUnchecked(c) ==
    IF c.interval = <<>> \/ c.interval = <<48>>
    THEN [err |-> "interval is required", run |-> FALSE, d |-> 0]
    ELSE IF ParseDuration(c.interval).err
    THEN [err |-> "invalid interval", run |-> FALSE, d |-> 0]
    ELSE IF c.clientFails
    THEN [err |-> "create client", run |-> FALSE, d |-> 0]
    ELSE IF c.serviceID = ""
    THEN [err |-> "service-id is required", run |-> FALSE, d |-> 0]
    ELSE [err |-> "none", run |-> TRUE, d |-> ParseDuration(c.interval).d]

\* runCmd.RunE up to the call of t.Run: the error it returns, or the
\* interval it gives to tagit.New
RunE(c) ==
    IF c.interval = <<>> \/ c.interval = <<48>>
    THEN [err |-> "interval is required", run |-> FALSE, d |-> 0]
    ELSE IF ParseDuration(c.interval).err
    THEN [err |-> "invalid interval", run |-> FALSE, d |-> 0]
    ELSE IF c.clientFails
    THEN [err |-> "create client", run |-> FALSE, d |-> 0]
    ELSE IF c.serviceID = ""
    THEN [err |-> "service-id is required", run |-> FALSE, d |-> 0]
    ELSE IF c.script = ""
    THEN [err |-> "script is required", run |-> FALSE, d |-> 0]
    ELSE [err |-> "none", run |-> TRUE, d |-> ParseDuration(c.interval).d]

CmdInit ==
    /\ registry = NoService
    /\ pc = "idle"
    /\ service = NoService
    /\ out = <<>>
    /\ cancelled = FALSE
    /\ tickPending = FALSE
    /\ err = "none"
    /\ submitted = NoRegistration
    /\ lastOkOut = <<>>
    /\ fault = "none"
    /\ fnCurrent = <<>>
    /\ fnUpdate = <<>>
    /\ fnResult = <<>>
    /\ parse = NoParse
    /\ exe = NoExec
    /\ \E i \in SeqsUpTo(IntervalBytes, MaxInterval),
          s \in {"", "svc1"}, x \in {"", "x"}, f \in BOOLEAN :
           cmd = [pc |-> "invoked", interval |-> i, serviceID |-> s,
                  script |-> x, clientFails |-> f, err |-> "none",
                  ranRun |-> FALSE, Interval |-> 0]
    /\ loop = NoLoop
    /\ other = <<>>
    /\ stable = <<>>
    /\ fac = NoFac
    /\ unit = NoUnit

\* the variables the run command's own steps leave alone
notCmd == <<drv, fnCurrent, fnUpdate, fnResult, parse, exe, loop, other, stable, fac, unit>>

\* RunE from its start to its first return or to the call t.Run(ctx)
CmdRunE ==
    /\ cmd.pc = "invoked"
    /\ LET r == RunE(cmd)
       IN  IF r.run
           THEN cmd' = [cmd EXCEPT !.pc = "Run", !.ranRun = TRUE,
                                   !.Interval = r.d]
           ELSE cmd' = [cmd EXCEPT !.pc = "returned", !.err = r.err]
    /\ UNCHANGED notCmd

\* ticker := time.NewTicker(t.Interval): panics on a non-positive interval
CmdNewTicker ==
    /\ cmd.pc = "Run"
    /\ cmd' = [cmd EXCEPT !.pc = IF cmd.Interval <= 0 THEN "panicked"
                                 ELSE "looping"]
    /\ UNCHANGED notCmd

\* a signal cancels the context, Run returns and RunE returns nil
CmdStop ==
    /\ cmd.pc = "looping"
    /\ cmd' = [cmd EXCEPT !.pc = "returned", !.err = "nil"]
    /\ UNCHANGED notCmd

CmdNext ==
    \/ CmdRunE
    \/ CmdNewTicker
    \/ CmdStop

CmdSpec == CmdInit /\ [][CmdNext]_vars

----------------------------------------------------------------------------
(* cmd cleanup: the flags, their validation and the call of CleanupTags *)

\* cleanupCmd.RunE that does not look at the service-id flag
cleanupRunE_IdUnchecked(c) ==
    IF c.clientFails
    THEN [err |-> "create client", call |-> FALSE]
    ELSE [err |-> "none", call |-> TRUE]

\* cleanupCmd.RunE up to the call of t.CleanupTags: the error it returns, or
\* the call; the script and interval flags are not looked at
cleanupRunE(c) ==
    IF c.clientFails
    THEN [err |-> "create client", call |-> FALSE]
    ELSE IF c.serviceID = ""
    THEN [err |-> "service-id is required", call |-> FALSE]
    ELSE [err |-> "none", call |-> TRUE]

CleanupCmdInit ==
    /\ registry \in {NoService} \cup
           { [p EXCEPT !.Tags = tg] : p \in Profiles, tg \in SeqsUpTo(TagUniverse, MaxTags) }
    /\ pc = "idle"
    /\ service = NoService
    /\ out = <<>>
    /\ cancelled = FALSE
    /\ tickPending = FALSE
    /\ err = "none"
    /\ submitted = NoRegistration
    /\ lastOkOut = <<>>
    /\ fault = "none"
    /\ fnCurrent = <<>>
    /\ fnUpdate = <<>>
    /\ fnResult = <<>>
    /\ parse = NoParse
    /\ exe = NoExec
    /\ \E s \in {"", "svc1"}, x \in {"", "x"}, i \in {<<>>, <<53, 115>>},
          f \in BOOLEAN :
           cmd = [pc |-> "invoked", serviceID |-> s, script |-> x,
                  interval |-> i, clientFails |-> f, err |-> "none"]
    /\ loop = NoLoop
    /\ other = <<>>
    /\ stable = <<>>
    /\ fac = NoFac
    /\ unit = NoUnit

\* cleanupCmd.RunE from its start to its first return or to t.CleanupTags()
CleanupCmdRunE ==
    /\ cmd.pc = "invoked"
    /\ LET r == cleanupRunE(cmd)
       IN  IF r.call
           THEN cmd' = [cmd EXCEPT !.pc = "CleanupTags"]
           ELSE cmd' = [cmd EXCEPT !.pc = "returned", !.err = r.err]
    /\ UNCHANGED notCmd

\* err = t.CleanupTags(): its getService
CleanupCmdFetch ==
    /\ cmd.pc = "CleanupTags"
    /\ pc = "idle"
    /\ err = "none"
    /\ CleanupGetService

\* t.CleanupTags(): its updateConsulService
CleanupCmdUpdate ==
    /\ cmd.pc = "CleanupTags"
    /\ CleanupUpdate

\* CleanupTags has returned: RunE wraps its error, or returns nil
CleanupCmdReturn ==
    /\ cmd.pc = "CleanupTags"
    /\ pc = "idle"
    /\ err # "none"
    /\ cmd' = [cmd EXCEPT !.pc = "returned",
                          !.err = IF err = "nil" THEN "nil"
                                  ELSE "failed to clean up tags"]
    /\ UNCHANGED notCmd

CleanupCmdNext ==
    \/ CleanupCmdRunE
    \/ CleanupCmdFetch
    \/ CleanupCmdUpdate
    \/ CleanupCmdReturn

CleanupCmdSpec == CleanupCmdInit /\ [][CleanupCmdNext]_vars

----------------------------------------------------------------------------
(* TagIt.Run's loop on its own: the ticker's channel, ticks and passes counted *)

LoopInit ==
    /\ registry = NoService
    /\ pc = "idle"
    /\ service = NoService
    /\ out = <<>>
    /\ cancelled = FALSE
    /\ tickPending = FALSE
    /\ err = "none"
    /\ submitted = NoRegistration
    /\ lastOkOut = <<>>
    /\ fault = "none"
    /\ fnCurrent = <<>>
    /\ fnUpdate = <<>>
    /\ fnResult = <<>>
    /\ parse = NoParse
    /\ exe = NoExec
    /\ cmd = NoCmd
    /\ loop = [pc |-> "select", pending |-> 0, cancelled |-> FALSE,
               fired |-> 0, started |-> 0, sinceTick |-> 0,
               during |-> 0, prevDuring |-> 0, firedAtCancel |-> -1]
    /\ other = <<>>
    /\ stable = <<>>
    /\ fac = NoFac
    /\ unit = NoUnit

\* the variables the loop's own steps leave alone
notLoop == <<drv, fnCurrent, fnUpdate, fnResult, parse, exe, cmd, other, stable, fac, unit>>

\* a ticker whose channel queues every tick
LoopTick_Queued ==
    /\ loop.pc \in {"select", "pass"}
    /\ loop.fired < MaxTicks
    /\ loop' = [loop EXCEPT !.fired = @ + 1,
                            !.pending = @ + 1,
                            !.sinceTick = 0,
                            !.during = IF loop.pc = "pass" THEN @ + 1 ELSE @]
    /\ UNCHANGED notLoop

\* the ticker fires: ticker.C has room for one tick, a tick that finds it
\* full is dropped
LoopTick ==
    /\ loop.pc \in {"select", "pass"}
    /\ loop.fired < MaxTicks
    /\ loop' = [loop EXCEPT !.fired = @ + 1,
                            !.pending = IF @ < 1 THEN @ + 1 ELSE @,
                            !.sinceTick = 0,
                            !.during = IF loop.pc = "pass" THEN @ + 1 ELSE @]
    /\ UNCHANGED notLoop

\* select takes case <-ticker.C: a pass starts
LoopSelectTick ==
    /\ loop.pc = "select"
    /\ loop.pending > 0
    /\ loop' = [loop EXCEPT !.pc = "pass",
                            !.pending = @ - 1,
                            !.started = @ + 1,
                            !.sinceTick = @ + 1,
                            !.during = 0,
                            !.prevDuring = loop.during]
    /\ UNCHANGED notLoop

\* updateServiceTags returns, with an error or not: back to the select
LoopPass ==
    /\ loop.pc = "pass"
    /\ loop' = [loop EXCEPT !.pc = "select"]
    /\ UNCHANGED notLoop

\* the signal goroutine calls cancel()
LoopCancel ==
    /\ loop.pc \in {"select", "pass"}
    /\ ~loop.cancelled
    /\ loop' = [loop EXCEPT !.cancelled = TRUE, !.firedAtCancel = loop.fired]
    /\ UNCHANGED notLoop

\* select takes case <-ctx.Done(): Run returns
LoopSelectDone ==
    /\ loop.pc = "select"
    /\ loop.cancelled
    /\ loop' = [loop EXCEPT !.pc = "returned"]
    /\ UNCHANGED notLoop

LoopNext ==
    \/ LoopTick
    \/ LoopSelectTick
    \/ LoopPass
    \/ LoopCancel
    \/ LoopSelectDone

LoopSpec == LoopInit /\ [][LoopNext]_vars

----------------------------------------------------------------------------
(* The driver with another client of the agent writing the same entry *)

\* the tag lists the entry starts with and the other client registers: no
\* tag, or one tag of TagUniverse
OtherTags == { <<>> } \cup { <<tag>> : tag \in TagUniverse }

WriterInit ==
    /\ registry \in { [p EXCEPT !.Tags = tg] : p \in Profiles, tg \in OtherTags }
    /\ pc = "idle"
    /\ service = NoService
    /\ out = <<>>
    /\ cancelled = FALSE
    /\ tickPending = FALSE
    /\ err = "none"
    /\ submitted = NoRegistration
    /\ lastOkOut = <<>>
    /\ fault = "none"
    /\ fnCurrent = <<>>
    /\ fnUpdate = <<>>
    /\ fnResult = <<>>
    /\ parse = NoParse
    /\ exe = NoExec
    /\ cmd = NoCmd
    /\ loop = NoLoop
    /\ other = <<>>
    /\ stable = <<>>
    /\ fac = NoFac
    /\ unit = NoUnit

\* another client registers the service with tags of its own choice
\* (agent.ServiceRegister from outside this program), the other fields kept,
\* between two passes or between a pass's fetch and its register call
OtherWriter ==
    /\ pc \in {"select", "probe"}
    /\ \E tg \in OtherTags :
         /\ tg # registry.Tags
         /\ registry' = [registry EXCEPT !.Tags = tg]
         /\ other' = <<tg>>
    /\ submitted' = NoRegistration
    /\ out' = <<>>
    /\ fault' = "none"
    /\ UNCHANGED <<pc, service, cancelled, tickPending, err, lastOkOut,
                   fnCurrent, fnUpdate, fnResult, parse, exe, cmd, loop,
                   stable, fac, unit>>

\* Run up to the stop signal, and the other client
WriterNext ==
    \/ StartRun
    \/ Tick
    \/ SelectTick
    \/ PassGetService
    \/ PassGenerateAndUpdate
    \/ OtherWriter

WriterSpec == WriterInit /\ [][WriterNext]_vars

----------------------------------------------------------------------------
(* Run with the stop signal never raised, its calls failing at will up to a
   point and succeeding from that point on, the probe output then fixed *)

\* the outputs the probe settles on: nothing, "a", "a a" and "a b"
StableOutputs == { <<>>, <<97>>, <<97, 32, 97>>, <<97, 32, 98>> }

StableInit ==
    /\ registry \in { [p EXCEPT !.Tags = tg] : p \in Profiles, tg \in SeqsUpTo(TagUniverse, MaxTags) }
    /\ pc = "idle"
    /\ service = NoService
    /\ out = <<>>
    /\ cancelled = FALSE
    /\ tickPending = FALSE
    /\ err = "none"
    /\ submitted = NoRegistration
    /\ lastOkOut = <<>>
    /\ fault = "none"
    /\ fnCurrent = <<>>
    /\ fnUpdate = <<>>
    /\ fnResult = <<>>
    /\ parse = NoParse
    /\ exe = NoExec
    /\ cmd = NoCmd
    /\ loop = NoLoop
    /\ other = <<>>
    /\ stable = <<>>
    /\ fac = NoFac
    /\ unit = NoUnit

\* the point from which agent.Service, Execute and agent.ServiceRegister
\* succeed and the probe prints the same output: the output and the tags of
\* the entry at that point are kept
Stabilise ==
    /\ stable = <<>>
    /\ pc \in {"select", "fetch", "probe"}
    /\ \E o \in StableOutputs : stable' = << [out |-> o, tags |-> registry.Tags] >>
    /\ submitted' = NoRegistration
    /\ out' = <<>>
    /\ fault' = "none"
    /\ UNCHANGED <<registry, pc, service, cancelled, tickPending, err, lastOkOut,
                   fnCurrent, fnUpdate, fnResult, parse, exe, cmd, loop, other,
                   fac, unit>>

\* updateServiceTags: getService, which succeeds from that point on
StableGetService ==
    /\ PassGetService
    /\ stable # <<>> => fault' = "none"

\* updateServiceTags: generateNewTags and updateConsulService, which succeed
\* from that point on, the probe printing the fixed output
StableGenerateAndUpdate ==
    /\ PassGenerateAndUpdate
    /\ stable # <<>> => (fault' = "none" /\ out' = stable[1].out)

StableNext ==
    \/ StartRun
    \/ Tick
    \/ SelectTick
    \/ StableGetService
    \/ StableGenerateAndUpdate
    \/ Stabilise

\* updateServiceTags returning to the select of Run: the step of pc that
\* StableGenerateAndUpdate takes, possible whenever pc = "probe"
StablePassDone == pc = "probe" /\ pc' = "select"

\* Fairness: Run is started, the ticker fires, the select takes a waiting
\* tick and the calls of a pass return (the ticker cannot fire again while
\* its tick waits, so the loop advances).
StableSpec ==
    /\ StableInit /\ [][StableNext]_vars
    /\ WF_vars(StartRun)
    /\ WF_vars(Tick)
    /\ WF_vars(SelectTick)
    /\ WF_vars(StableGetService)
    /\ WF_pc(StablePassDone)

----------------------------------------------------------------------------
(* Run and CleanupTags on a service registered with two tags, out of order
   or repeated *)

\* the tag lists the entry starts with: "ta" before "a-t", "ta" twice,
\* "t-" before "a-t", "t-a" twice
OrderTags ==
    { << <<116, 97>>, <<97, 45, 116>> >>,
      << <<116, 97>>, <<116, 97>> >>,
      << <<116, 45>>, <<97, 45, 116>> >>,
      << <<116, 45, 97>>, <<116, 45, 97>> >> }

OrderInit ==
    /\ registry \in { [p EXCEPT !.Tags = tg] : p \in Profiles, tg \in OrderTags }
    /\ pc = "idle"
    /\ service = NoService
    /\ out = <<>>
    /\ cancelled = FALSE
    /\ tickPending = FALSE
    /\ err = "none"
    /\ submitted = NoRegistration
    /\ lastOkOut = <<>>
    /\ fault = "none"
    /\ fnCurrent = <<>>
    /\ fnUpdate = <<>>
    /\ fnResult = <<>>
    /\ parse = NoParse
    /\ exe = NoExec
    /\ cmd = NoCmd
    /\ loop = NoLoop
    /\ other = <<>>
    /\ stable = <<>>
    /\ fac = NoFac
    /\ unit = NoUnit

OrderSpec == OrderInit /\ [][Next]_vars

----------------------------------------------------------------------------
(* Run, then CleanupTags, on a service its owner registered without any
   managed tag *)

\* the tag lists the owner registered: none, "ta", "ta" before "a-t", "ta" twice
RoundTags ==
    { <<>>,
      << <<116, 97>> >>,
      << <<116, 97>>, <<97, 45, 116>> >>,
      << <<116, 97>>, <<116, 97>> >> }

\* the owner's registration is the last write of another client
RoundInit ==
    /\ registry \in { [p EXCEPT !.Tags = tg] : p \in Profiles, tg \in RoundTags }
    /\ other = << registry.Tags >>
    /\ pc = "idle"
    /\ service = NoService
    /\ out = <<>>
    /\ cancelled = FALSE
    /\ tickPending = FALSE
    /\ err = "none"
    /\ submitted = NoRegistration
    /\ lastOkOut = <<>>
    /\ fault = "none"
    /\ fnCurrent = <<>>
    /\ fnUpdate = <<>>
    /\ fnResult = <<>>
    /\ parse = NoParse
    /\ exe = NoExec
    /\ cmd = NoCmd
    /\ loop = NoLoop
    /\ stable = <<>>
    /\ fac = NoFac
    /\ unit = NoUnit

RoundSpec == RoundInit /\ [][Next]_vars

----------------------------------------------------------------------------
(* pkg/consul: the global Factory, SetFactory, ResetFactory, CreateClient *)

\* the number of SetFactory and ResetFactory calls that are followed
MaxCalls == 2

\* a nil Client
NilClient == [kind |-> "nil", address |-> "", token |-> ""]

\* the clients a test puts into a MockFactory: nil or a mock
MockClients == { NilClient, [kind |-> "mock", address |-> "", token |-> ""] }

\* the errors a test puts into a MockFactory: nil or an error
MockErrors == { "nil", "mock error" }

\* the arguments of CreateClient
FacAddresses == { "", "127.0.0.1:8500" }
FacTokens == { "", "secret" }

\* &DefaultFactory{}
DefaultFactory == [type |-> "DefaultFactory", MockClient |-> NilClient, MockError |-> "nil"]

\* &MockFactory{MockClient: c, MockError: e}
MockFactories ==
    { [type |-> "MockFactory", MockClient |-> c, MockError |-> e] :
        c \in MockClients, e \in MockErrors }

\* no CreateClient in this step
NoClientReturn == [client |-> NilClient, err |-> "none"]

\* f.NewClient(address, token); apiFails is the outcome of api.NewClient
NewClient(f, address, token, apiFails) ==
    IF f.type = "DefaultFactory"
    THEN IF apiFails
         THEN [client |-> NilClient, err |-> "failed to create Consul client"]
         ELSE [client |-> [kind |-> "ApiWrapper", address |-> address, token |-> token],
               err |-> "nil"]
    ELSE IF f.MockError # "nil"
         THEN [client |-> NilClient, err |-> f.MockError]
         ELSE [client |-> f.MockClient, err |-> "nil"]

\* var Factory ClientFactory = &DefaultFactory{}; history holds the
\* SetFactory and ResetFactory calls made so far
FacInit ==
    /\ registry = NoService
    /\ pc = "idle"
    /\ service = NoService
    /\ out = <<>>
    /\ cancelled = FALSE
    /\ tickPending = FALSE
    /\ err = "none"
    /\ submitted = NoRegistration
    /\ lastOkOut = <<>>
    /\ fault = "none"
    /\ fnCurrent = <<>>
    /\ fnUpdate = <<>>
    /\ fnResult = <<>>
    /\ parse = NoParse
    /\ exe = NoExec
    /\ cmd = NoCmd
    /\ loop = NoLoop
    /\ other = <<>>
    /\ stable = <<>>
    /\ fac = [pc |-> "ready", Factory |-> DefaultFactory, history |-> <<>>,
              address |-> "", token |-> "", ret |-> NoClientReturn]
    /\ unit = NoUnit

\* the variables pkg/consul leaves alone
notFac == <<drv, fnCurrent, fnUpdate, fnResult, parse, exe, cmd, loop, other, stable, unit>>

\* SetFactory(f): Factory = f
SetFactory ==
    /\ fac.pc = "ready"
    /\ Len(fac.history) < MaxCalls
    /\ \E f \in MockFactories :
         fac' = [fac EXCEPT !.Factory = f,
                            !.history = Append(@, [op |-> "SetFactory", f |-> f]),
                            !.ret = NoClientReturn]
    /\ UNCHANGED notFac

\* ResetFactory that leaves the installed factory in place
ResetFactory_Keep ==
    /\ fac.pc = "ready"
    /\ Len(fac.history) < MaxCalls
    /\ fac' = [fac EXCEPT !.history = Append(@, [op |-> "ResetFactory", f |-> DefaultFactory]),
                          !.ret = NoClientReturn]
    /\ UNCHANGED notFac

\* ResetFactory(): Factory = &DefaultFactory{}
ResetFactory ==
    /\ fac.pc = "ready"
    /\ Len(fac.history) < MaxCalls
    /\ fac' = [fac EXCEPT !.Factory = DefaultFactory,
                          !.history = Append(@, [op |-> "ResetFactory", f |-> DefaultFactory]),
                          !.ret = NoClientReturn]
    /\ UNCHANGED notFac

\* CreateClient(address, token): return Factory.NewClient(address, token)
CreateClient ==
    /\ fac.pc = "ready"
    /\ \E address \in FacAddresses, token \in FacTokens, apiFails \in BOOLEAN :
         fac' = [fac EXCEPT !.address = address,
                            !.token = token,
                            !.ret = NewClient(fac.Factory, address, token, apiFails)]
    /\ UNCHANGED notFac

FacNext ==
    \/ SetFactory
    \/ ResetFactory
    \/ CreateClient

FacSpec == FacInit /\ [][FacNext]_vars

----------------------------------------------------------------------------
(* pkg/systemd: validateFields, RenderTemplate, NewFieldsFromFlags *)

\* the fields of Fields, in the order of the struct
FieldNames ==
    <<"ServiceID", "Script", "TagPrefix", "Interval", "Token", "ConsulAddr",
      "User", "Group">>

\* the flag NewFieldsFromFlags reads each field from
FlagOf ==
    [ServiceID |-> "service-id", Script |-> "script", TagPrefix |-> "tag-prefix",
     Interval |-> "interval", Token |-> "token", ConsulAddr |-> "consul-addr",
     User |-> "user", Group |-> "group"]

FlagNames == { FlagOf[FieldNames[i]] : i \in 1..Len(FieldNames) }

\* the values of a field or flag: empty or not
FieldValues == { "", "v" }

\* every Fields struct
AllFields == [ { FieldNames[i] : i \in 1..Len(FieldNames) } -> FieldValues ]

\* every map[string]string over the flag names: a flag is absent, empty or set
AllFlags == UNION { [D -> FieldValues] : D \in SUBSET FlagNames }

\* flags[name] of a Go map: the empty string for a missing key
FlagValue(flags, name) == IF name \in DOMAIN flags THEN flags[name] ELSE ""

\* the names among `names`, in order, whose field is empty
RECURSIVE MissingAmong(_, _)
MissingAmong(fields, names) ==
    IF Len(names) = 0 THEN <<>>
    ELSE (IF fields[Head(names)] = "" THEN <<Head(names)>> ELSE <<>>)
         \o MissingAmong(fields, Tail(names))

\* validateFields that does not look at Group
validateFields_NoGroup(fields) ==
    LET missingFields ==
            MissingAmong(fields, <<"ServiceID", "Script", "TagPrefix", "Interval", "User">>)
    IN  IF Len(missingFields) > 0
        THEN [err |-> "missing required fields", missing |-> missingFields]
        ELSE [err |-> "nil", missing |-> <<>>]

\* validateFields: the six checks in their order, then the error naming the
\* missing fields
validateFields(fields) ==
    LET missingFields ==
            MissingAmong(fields, <<"ServiceID", "Script", "TagPrefix", "Interval",
                                   "User", "Group">>)
    IN  IF Len(missingFields) > 0
        THEN [err |-> "missing required fields", missing |-> missingFields]
        ELSE [err |-> "nil", missing |-> <<>>]

\* no unit file and no Fields: "" and nil
NoValue == [kind |-> "none"]

\* parsedTemplate.Execute: the lines of the unit file that depend on fields
ExecuteTemplate(fields) ==
    [kind        |-> "unit",
     Description |-> <<"Tagit", fields.ServiceID>>,
     ExecStart   |-> <<"/usr/bin/tagit", "run", "-s", fields.ServiceID,
                       "-x", fields.Script, "-p", fields.TagPrefix,
                       "-i", fields.Interval>>
                     \o (IF fields.Token # "" THEN <<"-t", fields.Token>> ELSE <<>>)
                     \o (IF fields.ConsulAddr # ""
                         THEN <<"-c", fields.ConsulAddr>> ELSE <<>>),
     Environment |-> <<"HOME=/var/run/tagit/", fields.ServiceID>>,
     User        |-> fields.User,
     Group       |-> fields.Group]

\* RenderTemplate
RenderTemplate(fields) ==
    LET v == validateFields(fields)
    IN  IF v.err # "nil"
        THEN [value |-> NoValue, err |-> "field validation failed", missing |-> v.missing]
        ELSE [value |-> ExecuteTemplate(fields), err |-> "nil", missing |-> <<>>]

\* NewFieldsFromFlags
NewFieldsFromFlags(flags) ==
    LET fields == [ n \in DOMAIN FlagOf |-> FlagValue(flags, FlagOf[n]) ]
        v      == validateFields(fields)
    IN  IF v.err # "nil"
        THEN [value |-> NoValue, err |-> v.err, missing |-> v.missing]
        ELSE [value |-> [kind |-> "Fields", fields |-> fields], err |-> "nil",
              missing |-> <<>>]

UnitInit ==
    /\ registry = NoService
    /\ pc = "idle"
    /\ service = NoService
    /\ out = <<>>
    /\ cancelled = FALSE
    /\ tickPending = FALSE
    /\ err = "none"
    /\ submitted = NoRegistration
    /\ lastOkOut = <<>>
    /\ fault = "none"
    /\ fnCurrent = <<>>
    /\ fnUpdate = <<>>
    /\ fnResult = <<>>
    /\ parse = NoParse
    /\ exe = NoExec
    /\ cmd = NoCmd
    /\ loop = NoLoop
    /\ other = <<>>
    /\ stable = <<>>
    /\ fac = NoFac
    /\ unit = [pc |-> "ready"]

\* the variables pkg/systemd leaves alone
notUnit == <<drv, fnCurrent, fnUpdate, fnResult, parse, exe, cmd, loop, other, stable, fac>>

\* RenderTemplate is applied to a Fields
UnitRenderTemplate ==
    /\ unit.pc = "ready"
    /\ \E fields \in AllFields :
         unit' = [pc |-> "done", op |-> "RenderTemplate", fields |-> fields,
                  flags |-> <<>>, ret |-> RenderTemplate(fields)]
    /\ UNCHANGED notUnit

\* NewFieldsFromFlags is applied to a flag map
UnitNewFieldsFromFlags ==
    /\ unit.pc = "ready"
    /\ \E flags \in AllFlags :
         unit' = [pc |-> "done", op |-> "NewFieldsFromFlags",
                  fields |-> [ n \in DOMAIN FlagOf |-> "" ],
                  flags |-> flags, ret |-> NewFieldsFromFlags(flags)]
    /\ UNCHANGED notUnit

UnitNext ==
    \/ UnitRenderTemplate
    \/ UnitNewFieldsFromFlags

UnitSpec == UnitInit /\ [][UnitNext]_vars

----------------------------------------------------------------------------
(* Vocabulary of the properties *)

\* a managed tag is the prefix, a dash and any value: "t-" followed by anything
Managed(tag) == \E k \in 0..Len(tag) : SubSeq(tag, 1, k) = <<116, 45>>

\* the foreign tags of a tag list, as a set
ForeignSet(tags) == { tag \in Range(tags) : ~Managed(tag) }

\* the managed tags of a tag list, as a set
ManagedSet(tags) == { tag \in Range(tags) : Managed(tag) }

\* the candidate set of a probe output
CandidateSet(output) == Range(parseScriptOutput(output))

\* this step was a pass step whose probe succeeded (it ran updateConsulService)
ProbedStep == pc = "probe" /\ pc' = "select" /\ err' # "runScript"

\* the errors getService returns
GetServiceErrors == {"error getting service", "service not found"}

PassErrors == GetServiceErrors \cup {"runScript", "register"}

----------------------------------------------------------------------------
(* Properties *)

\* C1: with a single driver and no other writer, no step of a pass or of
\* CleanupTags, whatever the probe output and whether it succeeds, fails or
\* writes nothing, adds or removes a foreign tag of the registered service.
C1_ForeignTagsPreserved ==
    [][ForeignSet(registry'.Tags) = ForeignSet(registry.Tags)]_vars

\* a pass has just written a registration that carries a foreign tag and a
\* managed tag
C1_Witness ==
    /\ pc = "select"
    /\ err = "nil"
    /\ submitted # NoRegistration
    /\ registry = Registered(submitted)
    /\ ForeignSet(registry.Tags) # {}
    /\ ManagedSet(registry.Tags) # {}

\* C2: from the moment a pass returns nil (it wrote or it had nothing to
\* write) the managed tags stored in the registry are exactly the candidate
\* set of that pass's probe output.
C2_ManagedEqualsCandidate ==
    lastOkOut # <<>> => ManagedSet(registry.Tags) = CandidateSet(lastOkOut[1])

\* a pass has just returned nil after writing the candidate set of an output
\* with a repeated token, next to a foreign tag
C2_Witness ==
    /\ pc = "select"
    /\ err = "nil"
    /\ submitted # NoRegistration
    /\ lastOkOut = <<out>>
    /\ out = <<97, 32, 97>>
    /\ ForeignSet(registry.Tags) # {}

\* C3: a pass whose probe prints the output of the last pass that returned
\* nil (no cleanup write in between) makes no ServiceRegister call and
\* returns nil.
C3_Idempotent ==
    [][ (ProbedStep /\ lastOkOut = <<out'>>)
            => (submitted' = NoRegistration /\ err' = "nil") ]_vars

\* a pass has just found nothing to write for a managed tag that only an
\* earlier pass can have written
C3_Witness ==
    /\ pc = "select"
    /\ err = "nil"
    /\ out = <<97, 97>>
    /\ lastOkOut = <<out>>
    /\ submitted = NoRegistration
    /\ ManagedSet(registry.Tags) = { <<116, 45, 97, 97>> }
    /\ ForeignSet(registry.Tags) # {}

\* C4: needsTag(current, update) returns (nil, false) exactly when the set of
\* managed tags of current equals the set of tags of update, whatever the
\* foreign tags of current; otherwise shouldTag is true.
C4_NeedsTagDecision ==
    fnResult # <<>> =>
        /\ fnResult[1].shouldTag = (ManagedSet(fnCurrent) # Range(fnUpdate))
        /\ ~fnResult[1].shouldTag => fnResult[1].updatedTags = <<>>

\* needsTag answered false for a current list with foreign and managed tags
C4_Witness ==
    /\ fnResult # <<>>
    /\ ~fnResult[1].shouldTag
    /\ ForeignSet(fnCurrent) # {}
    /\ ManagedSet(fnCurrent) # {}

\* C5: when needsTag returns shouldTag = true the returned tags are, as a
\* set, the foreign tags of current together with the tags of update.
C5_NeedsTagResult ==
    (fnResult # <<>> /\ fnResult[1].shouldTag) =>
        Range(fnResult[1].updatedTags) = ForeignSet(fnCurrent) \cup Range(fnUpdate)

\* needsTag answered true and dropped a managed tag that update lacks
C5_Witness ==
    /\ fnResult # <<>>
    /\ fnResult[1].shouldTag
    /\ ForeignSet(fnCurrent) # {}
    /\ \E tag \in ManagedSet(fnCurrent) : tag \notin Range(fnUpdate)
    /\ fnUpdate # <<>>

\* C6: a pass whose probe succeeds with empty or whitespace-only output
\* writes a registration holding exactly the foreign tags when the fetched
\* registration has a managed tag, and makes no write when it has none.
C6_EmptyOutput ==
    [][ (ProbedStep /\ \A i \in 1..Len(out') : out'[i] \in {9, 10, 11, 12, 13, 32})
            => IF ManagedSet(service.Tags) # {}
               THEN /\ submitted' # NoRegistration
                    /\ Range(submitted'.Tags) = ForeignSet(service.Tags)
               ELSE submitted' = NoRegistration ]_vars

\* a pass with whitespace-only output has just removed every managed tag and
\* kept a foreign one
C6_Witness ==
    /\ pc = "select"
    /\ out = <<32, 32>>
    /\ err = "nil"
    /\ submitted # NoRegistration
    /\ registry = Registered(submitted)
    /\ ManagedSet(registry.Tags) = {}
    /\ ForeignSet(registry.Tags) # {}

\* C7: every registration handed to ServiceRegister, by a pass or by
\* CleanupTags, has the ID, name, address, port, kind, metadata and both
\* weights of the service that was fetched.
C7_FieldsPreserved ==
    [][ submitted' # NoRegistration =>
            /\ submitted'.ID = service.ID
            /\ submitted'.Name = service.Service
            /\ submitted'.Address = service.Address
            /\ submitted'.Port = service.Port
            /\ submitted'.Kind = service.Kind
            /\ submitted'.Meta = service.Meta
            /\ submitted'.Weights.Passing = service.Weights.Passing
            /\ submitted'.Weights.Warning = service.Weights.Warning ]_vars

\* CleanupTags has just submitted a registration with changed tags
C7_Witness ==
    /\ pc = "idle"
    /\ submitted # NoRegistration
    /\ submitted.ID = ServiceID
    /\ ForeignSet(submitted.Tags) # {}

\* C8: a pass step that fails (fetch, probe or register) goes back to the
\* select; and at the select after a failed pass, with the stop signal not
\* raised, a pending tick can be taken and the only step Run takes is the
\* start of a new pass.
C8_FailedPassKeepsLooping ==
    [][ /\ (pc \in {"fetch", "probe"} /\ err' \in PassErrors) => pc' = "select"
        /\ (pc = "select" /\ err \in PassErrors /\ ~cancelled) =>
              /\ tickPending => ENABLED SelectTick
              /\ pc' # pc => pc' = "fetch" ]_vars

\* Run is back at the select after a pass whose register call failed, the
\* stop signal not raised and the next tick waiting
C8_Witness ==
    /\ pc = "select"
    /\ err = "register"
    /\ ~cancelled
    /\ tickPending
    /\ lastOkOut # <<>>

\* C9: once the stop signal is raised Run eventually returns (a pass in
\* flight terminating), and Run returns only with the stop signal raised.
C9_StopReturns ==
    /\ (cancelled ~> pc = "returned")
    /\ [][pc' = "returned" /\ pc # "returned" => cancelled]_vars

\* Run has returned after a stop signal
C9_Witness ==
    /\ pc = "returned"
    /\ cancelled
    /\ lastOkOut # <<>>

\* C10: with the stop signal raised while a pass is in flight, Run does not
\* return before the pass is over: the fetch is followed by the probe, and the
\* probe by the register call whenever the managed tags differ from the
\* candidate set.
C10_StopDoesNotInterrupt ==
    [][ (cancelled /\ pc \in {"fetch", "probe"}) =>
            /\ pc' \in {"fetch", "probe", "select"}
            /\ (pc = "fetch" /\ pc' # pc /\ err' \notin PassErrors) => pc' = "probe"
            /\ (ProbedStep /\ ManagedSet(service.Tags) # CandidateSet(out')) =>
                  /\ submitted' # NoRegistration
                  /\ CandidateSet(out') \subseteq Range(submitted'.Tags) ]_vars

\* a pass has just written with the stop signal raised, and Run has not
\* returned
C10_Witness ==
    /\ pc = "select"
    /\ cancelled
    /\ err = "nil"
    /\ submitted # NoRegistration
    /\ registry = Registered(submitted)
    /\ out # <<>>

\* C11: within one Run at most one pass is in progress: a pass begins (its
\* fetch is about to be made) only at the select, where no fetched
\* registration is held, never while another pass is between its fetch and
\* its register call.
C11_OnePassAtATime ==
    [][ (pc' = "fetch" /\ pc # "fetch") =>
            (pc = "select" /\ service = NoService) ]_vars

\* a tick has fired while a pass holds its fetched registration, and the pass
\* is still the only one
C11_Witness ==
    /\ pc = "probe"
    /\ tickPending
    /\ service # NoService
    /\ lastOkOut # <<>>

\* C12: CleanupTags makes a ServiceRegister call if and only if the fetched
\* registration has at least one managed tag.
C12_CleanupWritesIffManaged ==
    [][ (pc = "cleanup" /\ pc' = "idle") =>
            ((submitted' # NoRegistration) <=> (ManagedSet(service.Tags) # {})) ]_vars

\* C13: when CleanupTags returns nil the registered service has no managed
\* tag left and has the foreign tags it had before the call.
C13_CleanupResult ==
    [][ (pc = "cleanup" /\ pc' = "idle" /\ err' = "nil") =>
            /\ ManagedSet(registry'.Tags) = {}
            /\ ForeignSet(registry'.Tags) = ForeignSet(registry.Tags) ]_vars

\* CleanupTags has just returned nil after a write that left a foreign tag and
\* no managed tag
C13_Witness ==
    /\ pc = "idle"
    /\ err = "nil"
    /\ submitted # NoRegistration
    /\ registry = Registered(submitted)
    /\ ForeignSet(registry.Tags) # {}
    /\ ManagedSet(registry.Tags) = {}

\* C14: CleanupTags returns an error when agent.Service fails, when the
\* service is not found and when ServiceRegister fails; in the first two
\* cases it makes no ServiceRegister call and leaves the registry alone.
C14_CleanupSurfacesFailures ==
    [][ /\ (pc \in {"idle", "returned"} /\ pc' \in {"idle", "cleanup"}
               /\ (fault' = "Service" \/ registry = NoService)) =>
              /\ err' \in GetServiceErrors
              /\ pc' = "idle"
              /\ submitted' = NoRegistration
              /\ registry' = registry
        /\ (pc = "cleanup" /\ fault' = "ServiceRegister") =>
              /\ err' = "register"
              /\ pc' = "idle" ]_vars

\* CleanupTags has just returned the error of a failed ServiceRegister call
C14_Witness ==
    /\ pc = "idle"
    /\ fault = "ServiceRegister"
    /\ err = "register"
    /\ submitted # NoRegistration
    /\ ManagedSet(registry.Tags) # {}

\* C15: getService, in a pass and in CleanupTags: when agent.Service fails it
\* returns the error "error getting service <id>" and no service; when the
\* registry has no entry it returns the error "service <id> not found" and no
\* service; otherwise it returns the registry's entry and no error, and the
\* caller goes on with it.
C15_GetService ==
    [][ ((pc = "fetch" /\ pc' # "fetch")
            \/ (pc \in {"idle", "returned"} /\ pc' \in {"idle", "cleanup"})) =>
          IF fault' = "Service"
          THEN err' = "error getting service" /\ service' = NoService
                   /\ pc' \in {"select", "idle"}
          ELSE IF registry = NoService
          THEN err' = "service not found" /\ service' = NoService
                   /\ pc' \in {"select", "idle"}
          ELSE service' = registry /\ service'.ID = ServiceID
                   /\ err' \notin PassErrors /\ pc' \in {"probe", "cleanup"} ]_vars

\* a pass has just failed because the registry has no entry for the service
C15_Witness ==
    /\ pc = "select"
    /\ registry = NoService
    /\ fault = "none"
    /\ err = "service not found"
    /\ service = NoService

\* C16: a tag is treated as managed exactly when it starts with the prefix
\* followed by a dash: of the fetched tags, a registration written by a pass
\* or by CleanupTags keeps every tag that does not start so ("ta", "a-t"),
\* and keeps a tag that does only when it is a candidate of the pass.
C16_ManagedIffPrefixDash ==
    [][ submitted' # NoRegistration =>
          \A tag \in Range(service.Tags) :
              (tag \in Range(submitted'.Tags)) <=>
                  (~Managed(tag) \/ (pc = "probe" /\ tag \in CandidateSet(out'))) ]_vars

\* a pass has just written a registration that keeps "ta", which starts with
\* the prefix but has no dash, next to the managed tag "t-a"
C16_Witness ==
    /\ pc = "select"
    /\ submitted # NoRegistration
    /\ submitted.Tags = << <<116, 45, 97>>, <<116, 97>> >>

\* C17: parseScriptOutput splits the output on runs of whitespace, produces
\* no empty token and maps each token v to the tag "<prefix>-v": the result
\* has one tag per maximal run of non-whitespace bytes, in the order of the
\* runs, each the prefix, a dash and the bytes of the run. The output "a b c"
\* with prefix "t" yields exactly "t-a", "t-b", "t-c"; an output with no
\* non-whitespace byte yields no tags.
C17_Whitespace == {9, 10, 11, 12, 13, 32}

C17_Runs(o) ==
    { p \in (1..Len(o)) \X (1..Len(o)) :
        /\ p[1] <= p[2]
        /\ \A k \in p[1]..p[2] : o[k] \notin C17_Whitespace
        /\ (p[1] = 1 \/ o[p[1] - 1] \in C17_Whitespace)
        /\ (p[2] = Len(o) \/ o[p[2] + 1] \in C17_Whitespace) }

C17_ParseScriptOutput ==
    parse.done =>
        LET o == parse.output
            r == parse.tags
            runs == C17_Runs(o)
        IN  /\ Len(r) = Cardinality(runs)
            /\ \A p \in runs :
                   LET k == Cardinality({ q \in runs : q[1] < p[1] }) + 1
                   IN  /\ r[k] = <<116, 45>> \o SubSeq(o, p[1], p[2])
                       /\ Len(r[k]) > 2
            /\ (o = <<97, 32, 98, 32, 99>> =>
                    r = << <<116, 45, 97>>, <<116, 45, 98>>, <<116, 45, 99>> >>)
            /\ ((\A i \in 1..Len(o) : o[i] \in C17_Whitespace) => r = <<>>)

\* the output "a b c" has been parsed to three tags
C17_Witness ==
    /\ parse.done
    /\ parse.output = <<97, 32, 98, 32, 99>>
    /\ Len(parse.tags) = 3

\* C18: CmdExecutor.Execute fails without starting a child process when the
\* command is empty or cannot be tokenized (a quote is left open); a child
\* process is started only for a command that tokenizes to at least one word
\* (its quotes are closed and it has a byte that is not a space).
C18_Quotes(c) == Cardinality({ i \in 1..Len(c) : c[i] = 34 })

C18_NoSpawnForInvalidCommand ==
    exe.pc # "idle" =>
        /\ exe.spawned =>
               /\ C18_Quotes(exe.command) % 2 = 0
               /\ \E i \in 1..Len(exe.command) : exe.command[i] # 32
        /\ (exe.command = <<>> \/ C18_Quotes(exe.command) % 2 = 1) =>
               /\ ~exe.spawned
               /\ exe.proc = "none"
               /\ exe.pc \in {"called", "returned"}
               /\ exe.pc = "returned" =>
                      /\ exe.ret.err \in {"empty command", "split"}
                      /\ exe.ret.out = <<>>

\* Execute has returned the tokenization error for the command '"a', and no
\* child process was started
C18_Witness ==
    /\ exe.pc = "returned"
    /\ exe.command = <<34, 97>>
    /\ exe.ret.err = "split"
    /\ ~exe.spawned

\* C19: when the child process is still running at the moment the timeout
\* expires (Timeout seconds after the start, 30 seconds when Timeout is
\* zero), whatever Execute returns is the timeout error with no output
\* bytes: never a success, never the output written before the deadline,
\* and generateNewTags derives no tags from it.
C19_TimeoutNeverSuccess ==
    (/\ exe.pc = "returned"
     /\ exe.lastRunning >= (IF exe.Timeout = 0 THEN 30 ELSE exe.Timeout)) =>
        /\ exe.ret.err = "timeout"
        /\ exe.ret.out = <<>>
        /\ generateNewTags(exe.ret).tags = <<>>
        /\ generateNewTags(exe.ret).err # "nil"

\* with Timeout unset, the child process wrote output, was still running
\* after 30 seconds and then ended with status zero before it was killed;
\* Execute returned the timeout error
C19_Witness ==
    /\ exe.pc = "returned"
    /\ exe.Timeout = 0
    /\ exe.lastRunning = 30
    /\ exe.res = [out |-> <<97>>, err |-> "nil"]
    /\ exe.ret.err = "timeout"

\* C20: the run command returns an error and never calls Run when the
\* interval is empty, "0" or not a parsable duration, when the service ID is
\* empty, when the script is empty, or when the registry client cannot be
\* created. Over the bytes '-', '0', '5', 's', 'x' a parsable duration is an
\* optional '-' followed by "0" or by groups of digits each followed by one
\* 's'.
C20_Parsable(iv) ==
    LET body == IF Len(iv) > 0 /\ iv[1] = 45 THEN Tail(iv) ELSE iv
    IN  \/ body = <<48>>
        \/ /\ Len(body) > 0
           /\ body[1] \in {48, 53}
           /\ body[Len(body)] = 115
           /\ \A i \in 1..Len(body) : body[i] \in {48, 53, 115}
           /\ \A i \in 1..(Len(body) - 1) : ~(body[i] = 115 /\ body[i + 1] = 115)

C20_BadStartup ==
    \/ cmd.interval = <<>>
    \/ cmd.interval = <<48>>
    \/ ~C20_Parsable(cmd.interval)
    \/ cmd.serviceID = ""
    \/ cmd.script = ""
    \/ cmd.clientFails

C20_InvalidStartupNeverRuns ==
    (cmd.pc # "idle" /\ C20_BadStartup) =>
        /\ ~cmd.ranRun
        /\ cmd.pc \in {"invoked", "returned"}
        /\ cmd.pc = "returned" => cmd.err \notin {"none", "nil"}

\* the run command has returned an error for an empty script, with a valid
\* interval and service ID and a client, and Run was not called
C20_Witness ==
    /\ cmd.pc = "returned"
    /\ cmd.interval = <<53, 115>>
    /\ cmd.serviceID = "svc1"
    /\ cmd.script = ""
    /\ ~cmd.clientFails
    /\ cmd.err = "script is required"
    /\ ~cmd.ranRun

\* C21: the run command never starts the polling loop with a zero or
\* negative interval: every interval flag that denotes a non-positive
\* duration ("0", "0s", "-5s": a parsable duration that has a '-' sign or no
\* digit other than '0') is rejected with an error before Run is called, so
\* Run is never called and time.NewTicker never gets such an interval.
C21_NonPositive(iv) ==
    /\ C20_Parsable(iv)
    /\ \/ iv[1] = 45
       \/ \A i \in 1..Len(iv) : iv[i] # 53

C21_NonPositiveIntervalRejected ==
    (cmd.pc # "idle" /\ C21_NonPositive(cmd.interval)) =>
        /\ ~cmd.ranRun
        /\ cmd.pc \in {"invoked", "returned"}
        /\ cmd.pc = "returned" => cmd.err \notin {"none", "nil"}

\* C22 (as stated): whenever the cleanup command has returned and the
\* service ID is empty, the error it returned is "service-id is required",
\* and no fetch and no register call was made.
C22_Original ==
    (cmd.pc = "returned" /\ cmd.serviceID = "") =>
        /\ cmd.err = "service-id is required"
        /\ err = "none"
        /\ submitted = NoRegistration

\* C22 (amended): with an empty service ID the cleanup command never calls
\* CleanupTags (no fetch, no register call, the registry entry untouched) and
\* returns an error: "service-id is required" when the registry client was
\* created, the client's error when it was not (the client is created first).
C22_EmptyServiceIdNoCalls ==
    (cmd.pc # "idle" /\ cmd.serviceID = "") =>
        /\ cmd.pc \in {"invoked", "returned"}
        /\ pc = "idle"
        /\ err = "none"
        /\ fault = "none"
        /\ service = NoService
        /\ submitted = NoRegistration
        /\ cmd.pc = "returned" =>
               cmd.err = (IF cmd.clientFails THEN "create client"
                          ELSE "service-id is required")

\* the cleanup command has returned "service-id is required" for an empty
\* service ID, the registry holding an entry with a managed tag
C22_Witness ==
    /\ cmd.pc = "returned"
    /\ cmd.serviceID = ""
    /\ ~cmd.clientFails
    /\ cmd.err = "service-id is required"
    /\ registry # NoService
    /\ ManagedSet(registry.Tags) # {}
    /\ err = "none"

\* C23 (as stated): in every pass the probe is executed first and the
\* registration is fetched after it: when the probe is executed the pass has
\* fetched nothing yet.
C23_Original ==
    [][ (pc = "probe" /\ pc' # "probe") => service = NoService ]_vars

\* C23 (amended): the order of the external calls of a pass is fetch, probe,
\* register. A pass starts with the fetch; the probe is executed only after
\* a fetch that succeeded, with the fetched entry in hand, and a failed fetch
\* ends the pass with no probe and no register call; a register call is made
\* only by the step that executed the probe, with tags computed from the
\* fetched tags and that probe's output.
C23_FetchProbeRegister ==
    [][ /\ (pc = "select" /\ pc' # "select" /\ pc' # "returned") => pc' = "fetch"
        /\ (pc = "fetch" /\ pc' # "fetch") =>
               /\ out' = <<>>
               /\ submitted' = NoRegistration
               /\ fault' \in {"none", "Service"}
               /\ IF err' \in GetServiceErrors
                  THEN pc' = "select"
                  ELSE pc' = "probe" /\ service' = registry /\ service' # NoService
        /\ (pc # "probe" /\ pc' = "probe") => pc = "fetch"
        /\ (pc = "probe" /\ pc' # "probe") =>
               /\ service # NoService
               /\ pc' = "select"
               /\ submitted' # NoRegistration =>
                      /\ err' # "runScript"
                      /\ ManagedSet(submitted'.Tags) = CandidateSet(out')
                      /\ ForeignSet(submitted'.Tags) = ForeignSet(service.Tags)
      ]_vars

\* a pass has fetched an entry with the foreign tag "ta", then run the probe
\* (output "a") and then registered the entry with "t-a" added
C23_Witness ==
    /\ pc = "select"
    /\ out = <<97>>
    /\ submitted # NoRegistration
    /\ Range(submitted.Tags) = { <<116, 97>>, <<116, 45, 97>> }
    /\ registry = Registered(submitted)

\* C24: ticks that fire while a pass is in progress are coalesced, not
\* queued: at most one tick waits in the ticker's channel, after the most
\* recent tick at most one pass starts (however many ticks fired during the
\* pass before), and the number of passes started never exceeds the number
\* of ticks fired.
C24_TicksCoalesced ==
    loop.pc # "idle" =>
        /\ loop.pending <= 1
        /\ loop.sinceTick <= 1
        /\ loop.started <= loop.fired
        /\ loop.started + loop.pending <= loop.fired

\* three ticks fired during the first pass; one further pass started and
\* ended, and no tick waits
C24_Witness ==
    /\ loop.pc = "select"
    /\ loop.prevDuring = 3
    /\ loop.fired = 4
    /\ loop.started = 2
    /\ loop.pending = 0

\* C25: once the stop signal has been raised Run starts no new pass: with
\* the signal raised, no step leaves the select for a fetch, whether the tick
\* was waiting before the signal or fired after it.
C25_NoPassAfterStop ==
    [][ (cancelled /\ pc = "select") => pc' # "fetch" ]_vars

\* C26: a pass whose fetch fails (the agent.Service call fails or the
\* service is not registered) or whose probe fails makes no register call,
\* and the registry entry, its managed tags included, is left exactly as it
\* was.
C26_FailedPassWritesNothing ==
    [][ (/\ pc \in {"fetch", "probe"}
         /\ pc' # pc
         /\ \/ fault' \in {"Service", "Execute"}
            \/ (pc = "fetch" /\ registry = NoService)) =>
            /\ submitted' = NoRegistration
            /\ registry' = registry
            /\ err' \in GetServiceErrors \cup {"runScript"} ]_vars

\* a pass has just ended with a failed probe; the registry entry still has
\* its managed tag "t-" that no probe output produces
C26_Witness ==
    /\ pc = "select"
    /\ fault = "Execute"
    /\ err = "runScript"
    /\ submitted = NoRegistration
    /\ registry.Tags = << <<116, 45>> >>

\* C27: updateServiceTags returns an error if and only if the fetch fails
\* (the agent.Service call fails or the service is not registered), the
\* probe fails, or the register call it made fails; a pass that finds the
\* managed tags equal to the candidate set makes no register call and
\* returns no error; a failed register call is returned as an error and
\* leaves the registry entry unchanged.
C27_PassErrorIff ==
    [][ (pc \in {"fetch", "probe"} /\ pc' = "select") =>
            /\ err' \in PassErrors \cup {"nil"}
            /\ (err' # "nil") <=>
                   (fault' # "none" \/ (pc = "fetch" /\ registry = NoService))
            /\ (pc = "probe" /\ fault' = "none"
                    /\ ManagedSet(service.Tags) = CandidateSet(out')) =>
                   (err' = "nil" /\ submitted' = NoRegistration)
            /\ fault' = "ServiceRegister" =>
                   /\ submitted' # NoRegistration
                   /\ err' = "register"
                   /\ registry' = registry ]_vars

\* a pass has just ended without an error and without a register call: the
\* probe printed "a " and the entry has the tag "t-a"
C27_Witness ==
    /\ pc = "select"
    /\ err = "nil"
    /\ fault = "none"
    /\ submitted = NoRegistration
    /\ out = <<97, 32>>
    /\ registry.Tags = << <<116, 45, 97>> >>

\* C28: a pass writes a whole record built from the entry it fetched, with no
\* second read and no compare-and-swap: whether it writes is decided from
\* the fetched tags, and after its write the registry entry is the record it
\* submitted, whose foreign tags are those of the fetched entry, whatever
\* another client registered since the fetch; a foreign tag added in that
\* window is not in the entry any more.
C28_LastWriterWins ==
    [][ (pc = "probe" /\ pc' = "select" /\ fault' # "Execute") =>
            /\ (submitted' # NoRegistration) <=>
                   (ManagedSet(service.Tags) # CandidateSet(out'))
            /\ (submitted' # NoRegistration /\ err' = "nil") =>
                   /\ registry' = Registered(submitted')
                   /\ [submitted' EXCEPT !.Tags = <<>>] =
                          [copyServiceToRegistration(service) EXCEPT !.Tags = <<>>]
                   /\ ForeignSet(registry'.Tags) = ForeignSet(service.Tags)
                   /\ \A tag \in ForeignSet(registry.Tags) \ ForeignSet(service.Tags) :
                          tag \notin Range(registry'.Tags) ]_vars

\* the other client registered the foreign tag "ta" last, and a pass that
\* had fetched before has written since: the entry is the pass's record and
\* has no "ta"
C28_Witness ==
    /\ pc = "select"
    /\ err = "nil"
    /\ submitted # NoRegistration
    /\ registry = Registered(submitted)
    /\ other = << << <<116, 97>> >> >>
    /\ <<116, 97>> \notin Range(registry.Tags)

\* C29: each pass makes at most one fetch call, at most one probe execution
\* and at most one register call, and retries no stage: the fetch step is
\* taken once and is followed by the probe or, when it failed, by the end of
\* the pass; the probe step is taken once, makes the one register call of the
\* pass if any, and ends the pass; a stage that failed ends the pass, and a
\* fetch is made again only by a pass that a later tick starts.
C29_NoRetryWithinPass ==
    [][ /\ (pc = "fetch" /\ (pc' # pc \/ err' # err \/ fault' # fault)) =>
               /\ pc' \in {"probe", "select"}
               /\ (err' \in GetServiceErrors) <=> (pc' = "select")
               /\ submitted' = NoRegistration
        /\ (pc = "probe" /\ (pc' # pc \/ err' # err \/ fault' \notin {fault, "none"})) =>
               /\ pc' = "select"
               /\ service' = NoService
        /\ (pc \in {"fetch", "probe"} /\ fault' # "none") => pc' = "select"
        /\ (pc # "fetch" /\ pc' = "fetch") =>
               (pc = "select" /\ tickPending /\ ~tickPending')
        /\ (pc # "probe" /\ pc' = "probe") => (pc = "fetch" /\ fault' = "none")
      ]_vars

\* a pass has ended with a failed fetch and Run waits for the next tick
C29_Witness ==
    /\ pc = "select"
    /\ fault = "Service"
    /\ err = "error getting service"
    /\ ~tickPending
    /\ ~cancelled
    /\ registry # NoService

\* C30: every pass fetches the entry anew and decides from that fetch alone,
\* nothing being carried over from the pass before: the fetch hands the pass
\* the entry as it is in the registry then, whoever wrote it; whether the
\* pass writes depends on the fetched tags and its probe output only; and a
\* pass that ends without an error, the entry not having changed since its
\* fetch, leaves the managed tags equal to the candidate set of its probe
\* output and the foreign tags as they were, whatever another client did to
\* the tags before the fetch.
C30_NoCrossPassState ==
    [][ /\ (pc = "fetch" /\ pc' = "probe") => service' = registry
        /\ (pc = "probe" /\ pc' = "select" /\ fault' # "Execute") =>
               ((submitted' # NoRegistration) <=>
                    (ManagedSet(service.Tags) # CandidateSet(out')))
        /\ (pc = "probe" /\ pc' = "select" /\ err' = "nil" /\ registry = service) =>
               /\ ManagedSet(registry'.Tags) = CandidateSet(out')
               /\ ForeignSet(registry'.Tags) = ForeignSet(registry.Tags) ]_vars

\* the other client registered the entry without any tag last, and a pass
\* has since written the managed tag "t-a" of its probe output back
C30_Witness ==
    /\ pc = "select"
    /\ err = "nil"
    /\ other = << <<>> >>
    /\ submitted # NoRegistration
    /\ registry = Registered(submitted)
    /\ registry.Tags = << <<116, 45, 97>> >>

\* C31: with the stop signal never raised and the ticker firing, from the
\* point where every fetch, probe and register call succeeds and the probe
\* output is fixed, the registry entry eventually has exactly the foreign
\* tags it had at that point plus the candidate set of that output, and once
\* it has them no register call is made and the entry does not change.
C31_AtTarget ==
    /\ stable # <<>>
    /\ Range(registry.Tags) =
           ForeignSet(stable[1].tags) \cup CandidateSet(stable[1].out)

RECURSIVE OnceEach(_, _)
OnceEach(tokens, seen) ==
    IF Len(tokens) = 0 THEN <<>>
    ELSE IF Head(tokens) \in seen THEN OnceEach(Tail(tokens), seen)
    ELSE <<Head(tokens)>> \o OnceEach(Tail(tokens), seen \cup {Head(tokens)})

\* tokens joined by single spaces
RECURSIVE JoinTokens(_)
JoinTokens(tokens) ==
    IF Len(tokens) = 0 THEN <<>>
    ELSE IF Len(tokens) = 1 THEN Head(tokens)
    ELSE Head(tokens) \o <<32>> \o JoinTokens(Tail(tokens))

\* a probe output with every repeated token dropped
WithoutRepeats(output) == JoinTokens(OnceEach(Fields(output), {}))

\* a tag list holds no managed tag twice
NoManagedTwice(tags) ==
    \A i, j \in 1..Len(tags) : (i # j /\ Managed(tags[i])) => tags[i] # tags[j]

\* C32: duplicate tokens in the probe output collapse: a pass whose probe
\* prints an output with repeated tokens makes a register call exactly when
\* it would for the output with each token once, the tag list it submits
\* holds the same set of tags, and no submitted list holds a managed tag twice.
C32_DuplicatesCollapse ==
    [][ ProbedStep =>
          LET once == updateConsulService(service,
                          parseScriptOutput(WithoutRepeats(out')), FALSE)
          IN  /\ (submitted' # NoRegistration) = once.called
              /\ submitted' # NoRegistration =>
                    /\ Range(submitted'.Tags) = Range(once.registration.Tags)
                    /\ NoManagedTwice(submitted'.Tags) ]_vars

\* a pass whose probe printed "a a" has submitted the tag t-a once
C32_Witness ==
    /\ pc = "select"
    /\ out = <<97, 32, 97>>
    /\ submitted # NoRegistration
    /\ submitted.Tags = << <<116, 45, 97>> >>

\* Go's < on strings, from its definition: a is a proper prefix of b, or the
\* first byte where they differ is smaller in a
ByteLess(a, b) ==
    \E k \in 0..Len(a) :
        /\ k <= Len(b)
        /\ SubSeq(a, 1, k) = SubSeq(b, 1, k)
        /\ \/ k = Len(a) /\ k < Len(b)
           \/ k < Len(a) /\ k < Len(b) /\ a[k + 1] < b[k + 1]

\* a tag list in ascending order with no tag twice
AscendingNoRepeat(tags) == \A i \in 1..(Len(tags) - 1) : ByteLess(tags[i], tags[i + 1])

\* C33: every tag list a pass or CleanupTags hands to ServiceRegister is in
\* ascending byte order and holds no tag twice, whatever the order and the
\* repetitions of the fetched tags and of the probe's tokens.
C33_WrittenSortedUnique ==
    submitted # NoRegistration => AscendingNoRepeat(submitted.Tags)

\* a pass that fetched "ta", "a-t" and probed "a" has submitted a-t, t-a, ta
C33_Witness ==
    /\ pc = "select"
    /\ out = <<97>>
    /\ submitted # NoRegistration
    /\ submitted.Tags = << <<97, 45, 116>>, <<116, 45, 97>>, <<116, 97>> >>
    /\ registry.Tags = submitted.Tags

\* C34: Run makes no pass at start-up: no pass starts before the ticker has
\* fired for the first time, and when the stop signal was raised before that
\* first tick no pass ever starts (Run returns with no fetch, probe or write).
C34_NoPassBeforeFirstTick ==
    /\ loop.fired = 0 => loop.started = 0
    /\ loop.firedAtCancel = 0 => loop.started = 0

\* C35: round trip: on a service registered without managed tags, after any
\* passes of Run (failed ones included, no other writer) a CleanupTags that
\* returns nil leaves the entry with exactly the set of tags it was
\* registered with.
C35_RoundTrip ==
    (pc = "idle" /\ err = "nil") => Range(registry.Tags) = Range(other[1])

\* the service was registered without tags, and a CleanupTags that found
\* tags to remove (those the passes had added) has written the empty list
C35_Witness ==
    /\ other = << <<>> >>
    /\ pc = "idle"
    /\ err = "nil"
    /\ submitted # NoRegistration
    /\ submitted.Tags = <<>>
    /\ registry.Tags = <<>>

\* C36: Execute reports a timeout only for a probe that did not finish
\* before the deadline: when the child process ended by itself with status
\* zero before the deadline, Execute returns its standard output and no
\* error, however the exit and the expiry of the deadline interleave.
C36_FinishedInTimeIsSuccess ==
    (/\ exe.pc = "returned"
     /\ exe.proc = "exited"
     /\ exe.lastRunning < ExecDeadline(exe.Timeout)) =>
        exe.ret = [out |-> exe.stdout, err |-> "nil"]

\* C37: CreateClient delegates to the factory installed at the time: after
\* any SetFactory and ResetFactory calls it returns what the most recently
\* set factory returns, or what a DefaultFactory returns when the last call
\* was ResetFactory or no call was made. A MockFactory with an error set
\* gives that error and a nil client, one without gives its mock client and
\* no error; a DefaultFactory gives a client for the address and the token,
\* or a creation error and a nil client.
C37_CreateClientDelegates ==
    fac.ret # NoClientReturn =>
        LET h    == fac.history
            mock == h # <<>> /\ h[Len(h)].op = "SetFactory"
            f    == h[Len(h)].f
        IN  IF mock
            THEN IF f.MockError # "nil"
                 THEN fac.ret = [client |-> NilClient, err |-> f.MockError]
                 ELSE fac.ret = [client |-> f.MockClient, err |-> "nil"]
            ELSE \/ fac.ret = [client |-> NilClient,
                               err |-> "failed to create Consul client"]
                 \/ fac.ret = [client |-> [kind |-> "ApiWrapper",
                                           address |-> fac.address,
                                           token |-> fac.token],
                               err |-> "nil"]

\* after SetFactory of a mock and then ResetFactory, CreateClient returned
\* a client made by the DefaultFactory
C37_Witness ==
    /\ Len(fac.history) = 2
    /\ fac.history[1].op = "SetFactory"
    /\ fac.history[2].op = "ResetFactory"
    /\ fac.ret.err = "nil"
    /\ fac.ret.client.kind = "ApiWrapper"
    /\ fac.ret.client.address = "127.0.0.1:8500"

\* the fields that must not be empty, and the flags they are read from
RequiredFields == {"ServiceID", "Script", "TagPrefix", "Interval", "User", "Group"}
RequiredFlags == {"service-id", "script", "tag-prefix", "interval", "user", "group"}

\* C38: RenderTemplate and NewFieldsFromFlags return a validation error,
\* with no unit file and no Fields, exactly when one of ServiceID, Script,
\* TagPrefix, Interval, User, Group is empty (or its flag is missing);
\* whether Token and ConsulAddr are given makes no difference to that.
C38_RequiredFieldsOnly ==
    unit.pc = "done" =>
        LET emptyOne ==
                IF unit.op = "RenderTemplate"
                THEN \E n \in RequiredFields : unit.fields[n] = ""
                ELSE \E f \in RequiredFlags :
                        f \notin DOMAIN unit.flags \/ unit.flags[f] = ""
        IN  /\ emptyOne <=> unit.ret.err # "nil"
            /\ emptyOne <=> unit.ret.value = NoValue
            /\ emptyOne =>
                 unit.ret.err \in {"field validation failed", "missing required fields"}

\* RenderTemplate returned a unit file for fields without Token and
\* ConsulAddr, the six others set
C38_Witness ==
    /\ unit.pc = "done"
    /\ unit.op = "RenderTemplate"
    /\ unit.fields.Token = ""
    /\ unit.fields.ConsulAddr = ""
    /\ unit.ret.err = "nil"
    /\ unit.ret.value.kind = "unit"
    /\ unit.ret.value.ExecStart =
         <<"/usr/bin/tagit", "run", "-s", "v", "-x", "v", "-p", "v", "-i", "v">>

====
